---- MODULE Spec2Model ----
(***************************************************************************)
(* A model of the generic firmware container of libfwupdplugin             *)
(* (fu-firmware.c): the parse pipeline, the probe chain over candidate     *)
(* GTypes and the tree of child images.                                    *)
(*                                                                         *)
(* Objects live in `objs', a heap from object ids to FuFirmwarePrivate     *)
(* records.  Every public function is a pure operator from the object (or  *)
(* the heap) and its arguments to the new object and the GError it leaves; *)
(* an action applies one function and records the call in `ret'.           *)
(***************************************************************************)
EXTENDS Integers, Sequences, FiniteSets, TLC

VARIABLES objs, \* heap: object id -> FuFirmwarePrivate
          ret,  \* the last call: its arguments, the object before it, its result
          hist  \* history per object: what its parse calls did so far

vars == <<objs, ret, hist>>

----------------------------------------------------------------------------
(* Bounds of the model *)

\* Stand-in for FU_FIRMWARE_SEARCH_MAGIC_BUFSZ_MAX (fu-firmware.h, 32 MiB): the
\* code only compares the stream size with it, so a small ceiling keeps both
\* sides of the comparison reachable.
SearchMagicBufszMax == 2

\* Longest stream handed to a parse: one byte above the search ceiling.
MaxStreamLen == SearchMagicBufszMax + 1

\* Largest value given to fu_firmware_set_size_max
MaxSizeMax == 2

\* Largest exponent given to fu_firmware_set_alignment
MaxAlignment == 1

----------------------------------------------------------------------------
(* Pointers, byte strings, errors *)

NULL == <<>>
Some(x) == <<x>>

Min(a, b) == IF a < b THEN a ELSE b

RECURSIVE Pow2(_)
Pow2(n) == IF n = 0 THEN 1 ELSE 2 * Pow2(n - 1)

\* the bytes a stream or a blob may hold: the two magic values of the formats
Byte == {1, 2}

SeqsUpTo(S, n) == UNION {[1..k -> S] : k \in 0..n}

Streams == SeqsUpTo(Byte, MaxStreamLen)

G_OK == [ok |-> TRUE, code |-> "OK", msg |-> <<>>]

\* g_set_error(): msg is the list of message parts, the outermost prefix first
g_set_error(code, text) == [ok |-> FALSE, code |-> code, msg |-> <<text>>]

\* g_prefix_error(): the code is kept, the parts go in front of the message
g_prefix_error(err, prefix) == [err EXCEPT !.msg = prefix \o @]

----------------------------------------------------------------------------
(* Input streams *)

fu_input_stream_size(stream) == Len(stream)

\* a bounded view of `size' bytes of `stream' starting at `offset'
fu_partial_input_stream_new(stream, offset, size) ==
    SubSeq(stream, offset + 1, Min(offset + size, Len(stream)))

\* up to `count' bytes of `stream' from `offset'
fu_input_stream_read_bytes(stream, offset, count) ==
    SubSeq(stream, offset + 1, Min(offset + count, Len(stream)))

----------------------------------------------------------------------------
(* Format classes: which hooks a GType defines *)

GTypes == {"FuFirmware", "FuAcpiTable", "FuMagicFirmware", "FuRecFirmware", "FuFullFirmware"}

NoHooks == [validate |-> FALSE, tokenize |-> FALSE, parse |-> FALSE,
            check_compatible |-> FALSE, write |-> FALSE, build |-> FALSE,
            convert_version |-> FALSE, export |-> FALSE, magic |-> 0]

FU_FIRMWARE_GET_CLASS(self) ==
    CASE self.gtype = "FuFirmware"      -> NoHooks
      [] self.gtype = "FuAcpiTable"     -> [NoHooks EXCEPT !.parse = TRUE]
      [] self.gtype = "FuMagicFirmware" -> [NoHooks EXCEPT !.validate = TRUE, !.magic = 1]
      [] self.gtype = "FuRecFirmware"   -> [NoHooks EXCEPT !.tokenize = TRUE, !.parse = TRUE]
      [] self.gtype = "FuFullFirmware"  -> [validate |-> TRUE, tokenize |-> TRUE, parse |-> TRUE,
                                            check_compatible |-> TRUE, write |-> TRUE,
                                            build |-> TRUE, convert_version |-> TRUE,
                                            export |-> TRUE, magic |-> 2]

\* klass->validate(): the format's magic byte stands at `offset'
klass_validate(self, stream, offset) ==
    IF offset < Len(stream) /\ stream[offset + 1] = FU_FIRMWARE_GET_CLASS(self).magic
    THEN G_OK
    ELSE g_set_error("INVALID_FILE", self.gtype \o ": invalid magic")

\* klass->tokenize() and klass->parse(): the outcome `hk' is the call's input
klass_tokenize(self, hk) ==
    IF hk.tokenize THEN G_OK ELSE g_set_error("INVALID_DATA", self.gtype \o ": tokenize failed")

klass_parse(self, hk) ==
    IF hk.parse THEN G_OK ELSE g_set_error("INVALID_DATA", self.gtype \o ": parse failed")

\* the outcomes the hooks of an object's class can have (an absent hook has none)
HookOutcomes(self) ==
    [tokenize : IF FU_FIRMWARE_GET_CLASS(self).tokenize THEN BOOLEAN ELSE {TRUE},
     parse    : IF FU_FIRMWARE_GET_CLASS(self).parse THEN BOOLEAN ELSE {TRUE}]

----------------------------------------------------------------------------
(* FuFirmwarePrivate *)

\* ref_count and weak_pointers are the GObject's own fields: the references
\* held on the object, and the objects whose priv->parent is registered on it
\* with g_object_add_weak_pointer; written_after_free records a store into
\* the memory of the object after it was finalized; build_calls counts the
\* calls of klass->build on the object
g_object_new(gtype) ==
    [gtype |-> gtype, flags |-> {}, parent |-> NULL, images |-> <<>>,
     version |-> NULL, version_raw |-> 0, version_format |-> "unknown",
     bytes |-> NULL, stream |-> NULL, streamsz |-> 0, alignment |-> 0,
     id |-> NULL, filename |-> NULL, idx |-> 0, addr |-> 0, offset |-> 0,
     size |-> 0, size_max |-> 0, images_max |-> 0, depth |-> 0,
     chunks |-> NULL, patches |-> NULL,
     ref_count |-> 1, weak_pointers |-> {}, written_after_free |-> FALSE,
     build_calls |-> 0]

\* faulty variant: "flags = flag" for "flags |= flag"
fu_firmware_add_flag_assign(self, flag) == [self EXCEPT !.flags = {flag}]

fu_firmware_add_flag(self, flag) == [self EXCEPT !.flags = @ \cup {flag}]

fu_firmware_has_flag(self, flag) == flag \in self.flags

fu_firmware_set_offset(self, offset) == [self EXCEPT !.offset = offset]

fu_firmware_set_size(self, size) == [self EXCEPT !.size = size]

g_ptr_array_or_empty(array) == IF array = NULL THEN <<>> ELSE array[1]

fu_firmware_set_addr(self, addr) == [self EXCEPT !.addr = addr]

\* a FuChunk: its data, its index and its address
fu_chunk_bytes_new(bytes) == [bytes |-> bytes, idx |-> 0, address |-> 0]

fu_chunk_set_idx(chk, idx) == [chk EXCEPT !.idx = idx]

fu_chunk_set_address(chk, address) == [chk EXCEPT !.address = address]

\* faulty variant: the chunk is put in front of the chunks
fu_firmware_add_chunk_prepend(self, chk) ==
    [self EXCEPT !.chunks = Some(<<chk>> \o g_ptr_array_or_empty(self.chunks))]

fu_firmware_add_chunk(self, chk) ==
    [self EXCEPT !.chunks = Some(Append(g_ptr_array_or_empty(self.chunks), chk))]

fu_firmware_set_size_max(self, size_max) == [self EXCEPT !.size_max = size_max]

fu_firmware_set_alignment(self, alignment) == [self EXCEPT !.alignment = alignment]

\* `same' is the call with the very GBytes the object already holds
fu_firmware_set_bytes(self, bytes, same) ==
    IF same THEN self
    ELSE [self EXCEPT !.bytes = Some(bytes), !.stream = NULL]

\* faulty variant: the stream, already cut at the offset, is read from the offset again
fu_firmware_get_bytes_reoffset(self) ==
    IF self.bytes # NULL
    THEN G_OK @@ [bytes |-> self.bytes]
    ELSE IF self.stream # NULL
    THEN IF self.streamsz = 0
         THEN g_set_error("INVALID_DATA", "stream size unknown") @@ [bytes |-> NULL]
         ELSE G_OK @@ [bytes |-> Some(fu_input_stream_read_bytes(self.stream[1], self.offset,
                                                                 self.streamsz))]
    ELSE g_set_error("NOT_FOUND", "no payload set") @@ [bytes |-> NULL]

fu_firmware_get_bytes(self) ==
    IF self.bytes # NULL
    THEN G_OK @@ [bytes |-> self.bytes]
    ELSE IF self.stream # NULL
    THEN IF self.streamsz = 0
         THEN g_set_error("INVALID_DATA", "stream size unknown") @@ [bytes |-> NULL]
         ELSE G_OK @@ [bytes |-> Some(fu_input_stream_read_bytes(self.stream[1], 0, self.streamsz))]
    ELSE g_set_error("NOT_FOUND", "no payload set") @@ [bytes |-> NULL]

----------------------------------------------------------------------------
(* The parse pipeline *)

ParseFlags == {"NO_SEARCH", "CACHE_BLOB", "CACHE_STREAM"}

\* faulty variant: the search starts at 0 instead of at the caller's offset
RECURSIVE fu_firmware_search_magic_from_zero_at(_, _, _, _)
fu_firmware_search_magic_from_zero_at(self, stream, offset_tmp, streamsz) ==
    IF offset_tmp >= streamsz
    THEN [found |-> FALSE, offset |-> offset_tmp, calls |-> <<>>]
    ELSE IF klass_validate(self, stream, offset_tmp).ok
    THEN [found |-> TRUE, offset |-> offset_tmp, calls |-> <<offset_tmp>>]
    ELSE LET r == fu_firmware_search_magic_from_zero_at(self, stream, offset_tmp + 1, streamsz)
         IN  [r EXCEPT !.calls = <<offset_tmp>> \o @]

fu_firmware_search_magic_from_zero(self, stream, offset_tmp, streamsz) ==
    fu_firmware_search_magic_from_zero_at(self, stream, 0, streamsz)

\* the loop of fu_firmware_validate_for_offset: the first offset from
\* offset_tmp below streamsz that validates, with the offsets it tried
RECURSIVE fu_firmware_search_magic(_, _, _, _)
fu_firmware_search_magic(self, stream, offset_tmp, streamsz) ==
    IF offset_tmp >= streamsz
    THEN [found |-> FALSE, offset |-> offset_tmp, calls |-> <<>>]
    ELSE IF klass_validate(self, stream, offset_tmp).ok
    THEN [found |-> TRUE, offset |-> offset_tmp, calls |-> <<offset_tmp>>]
    ELSE LET r == fu_firmware_search_magic(self, stream, offset_tmp + 1, streamsz)
         IN  [r EXCEPT !.calls = <<offset_tmp>> \o @]

\* faulty variant: NO_SEARCH is obeyed although the object has ALWAYS_SEARCH
fu_firmware_validate_for_offset_no_always(self, stream, offset, flags) ==
    LET klass == FU_FIRMWARE_GET_CLASS(self)
        streamsz == fu_input_stream_size(stream)
        once == klass_validate(self, stream, offset)
        found == fu_firmware_search_magic(self, stream, offset, streamsz)
        out(err, s, o, calls) == [err |-> err, self |-> s, offset |-> o, calls |-> calls]
    IN  IF ~klass.validate
        THEN out(G_OK, self, offset, <<>>)
        ELSE IF "NO_SEARCH" \in flags
        THEN out(once, self, offset, <<offset>>)
        ELSE IF streamsz > SearchMagicBufszMax
        THEN out(IF once.ok THEN G_OK
                 ELSE g_prefix_error(once, <<"failed to search for magic as firmware size was over limit">>),
                 self, offset, <<offset>>)
        ELSE IF found.found
        THEN out(G_OK, fu_firmware_set_offset(self, found.offset), found.offset, found.calls)
        ELSE out(g_set_error("INVALID_FILE", "did not find magic"), self, offset, found.calls)

\* returns the error, the object, the offset as left in *offset and the
\* offsets the validator was called at
fu_firmware_validate_for_offset(self, stream, offset, flags) ==
    LET klass == FU_FIRMWARE_GET_CLASS(self)
        streamsz == fu_input_stream_size(stream)
        once == klass_validate(self, stream, offset)
        found == fu_firmware_search_magic(self, stream, offset, streamsz)
        out(err, s, o, calls) == [err |-> err, self |-> s, offset |-> o, calls |-> calls]
    IN  IF ~klass.validate
        THEN out(G_OK, self, offset, <<>>)
        ELSE IF ~fu_firmware_has_flag(self, "ALWAYS_SEARCH") /\ "NO_SEARCH" \in flags
        THEN out(once, self, offset, <<offset>>)
        ELSE IF streamsz > SearchMagicBufszMax
        THEN out(IF once.ok THEN G_OK
                 ELSE g_prefix_error(once, <<"failed to search for magic as firmware size was over limit">>),
                 self, offset, <<offset>>)
        ELSE IF found.found
        THEN out(G_OK, fu_firmware_set_offset(self, found.offset), found.offset, found.calls)
        ELSE out(g_set_error("INVALID_FILE", "did not find magic"), self, offset, found.calls)

\* the result of a parse: the error, the object as left, where the function
\* returned, the offset as resolved, the sub-view cut for the hooks (NULL when
\* none was cut), the offsets validated and the hooks invoked, in call order
ParseResult(err, self, exit, offset, partial_stream, validate_calls, hooks) ==
    [ok |-> err.ok, code |-> err.code, msg |-> err.msg, self |-> self, exit |-> exit,
     offset |-> offset, partial_stream |-> partial_stream,
     validate_calls |-> validate_calls, hooks |-> hooks]

\* the alignment check of a format without a parse hook
fu_firmware_parse_check_alignment(self, streamsz) ==
    streamsz % Pow2(self.alignment) = 0

\* faulty variant: the limit is applied also when size_max is 0
fu_firmware_parse_too_large_always(self) ==
    self.streamsz > self.size_max

\* the size_max check on the remaining size
fu_firmware_parse_too_large(self) ==
    self.size_max > 0 /\ self.streamsz > self.size_max

\* faulty variant: the object is not marked as parsed
fu_firmware_parse_mark_done_never(self) == self

\* the object is marked as parsed
fu_firmware_parse_mark_done(self) == fu_firmware_add_flag(self, "DONE_PARSE")

\* from the DONE_PARSE flag on: cut the sub-view, cache, tokenize, parse
fu_firmware_parse_stream_hooks(self0, stream, streamsz, offset, flags, hk, vcalls) ==
    LET klass == FU_FIRMWARE_GET_CLASS(self0)
        self1 == fu_firmware_parse_mark_done(self0)
        self2 == IF klass.check_compatible
                 THEN fu_firmware_add_flag(self1, "HAS_CHECK_COMPATIBLE") ELSE self1
        partial_stream == IF offset = 0 THEN stream
                          ELSE fu_partial_input_stream_new(stream, offset, self2.streamsz)
        blob == fu_input_stream_read_bytes(partial_stream, 0, self2.streamsz)
        self3 == IF "CACHE_BLOB" \in flags
                 THEN fu_firmware_set_bytes(self2, blob, FALSE) ELSE self2
        self4 == IF "CACHE_STREAM" \in flags
                 THEN [self3 EXCEPT !.stream = Some(partial_stream)] ELSE self3
        tok == klass_tokenize(self4, hk)
        prs == klass_parse(self4, hk)
        hooks_tok == IF klass.tokenize THEN <<"tokenize">> ELSE <<>>
        res(err, exit, hooks) ==
            ParseResult(err, self4, exit, offset, Some(partial_stream), vcalls, hooks)
    IN  IF klass.tokenize /\ ~tok.ok
        THEN res(tok, "tokenize", hooks_tok)
        ELSE IF klass.parse
        THEN res(prs, "parse", hooks_tok \o <<"parse">>)
        ELSE IF ~fu_firmware_parse_check_alignment(self4, streamsz)
        THEN res(g_set_error("INVALID_FILE", "raw firmware is not aligned"), "alignment", hooks_tok)
        ELSE res(G_OK, "success", hooks_tok)

\* faulty variant: a stream that ends at the offset is let through
fu_firmware_parse_stream_too_small_below(streamsz, offset) == streamsz < offset

\* the size check: the stream has no byte at the offset
fu_firmware_parse_stream_too_small(streamsz, offset) == streamsz <= offset

\* faulty variant: the object is marked as parsed before the size_max check
fu_firmware_parse_stream_done_first(self, stream, offset, flags, hk) ==
    LET streamsz == fu_input_stream_size(stream)
        v == fu_firmware_validate_for_offset(self, stream, offset, flags)
        self1 == [v.self EXCEPT !.streamsz = streamsz - v.offset]
    IN  IF fu_firmware_has_flag(self, "DONE_PARSE")
        THEN ParseResult(g_set_error("NOT_SUPPORTED", "firmware object cannot be reused"),
                         self, "reuse", offset, NULL, <<>>, <<>>)
        ELSE IF fu_firmware_parse_stream_too_small(streamsz, offset)
        THEN ParseResult(g_set_error("NOT_SUPPORTED", "stream size is smaller than offset"),
                         self, "size", offset, NULL, <<>>, <<>>)
        ELSE IF ~v.err.ok
        THEN ParseResult(v.err, v.self, "validate", v.offset, NULL, v.calls, <<>>)
        ELSE IF self1.streamsz = 0
        THEN ParseResult(g_set_error("NOT_SUPPORTED", "invalid firmware as zero sized"),
                         self1, "zero", v.offset, NULL, v.calls, <<>>)
        ELSE IF fu_firmware_parse_too_large(self1)
        THEN ParseResult(g_set_error("INVALID_FILE", "firmware is too large"),
                         fu_firmware_parse_mark_done(self1), "size_max", v.offset, NULL,
                         v.calls, <<>>)
        ELSE fu_firmware_parse_stream_hooks(self1, stream, streamsz, v.offset, flags, hk, v.calls)

fu_firmware_parse_stream(self, stream, offset, flags, hk) ==
    LET streamsz == fu_input_stream_size(stream)
        v == fu_firmware_validate_for_offset(self, stream, offset, flags)
        self1 == [v.self EXCEPT !.streamsz = streamsz - v.offset]
    IN  IF fu_firmware_has_flag(self, "DONE_PARSE")
        THEN ParseResult(g_set_error("NOT_SUPPORTED", "firmware object cannot be reused"),
                         self, "reuse", offset, NULL, <<>>, <<>>)
        ELSE IF fu_firmware_parse_stream_too_small(streamsz, offset)
        THEN ParseResult(g_set_error("NOT_SUPPORTED", "stream size is smaller than offset"),
                         self, "size", offset, NULL, <<>>, <<>>)
        ELSE IF ~v.err.ok
        THEN ParseResult(v.err, v.self, "validate", v.offset, NULL, v.calls, <<>>)
        ELSE IF self1.streamsz = 0
        THEN ParseResult(g_set_error("NOT_SUPPORTED", "invalid firmware as zero sized"),
                         self1, "zero", v.offset, NULL, v.calls, <<>>)
        ELSE IF fu_firmware_parse_too_large(self1)
        THEN ParseResult(g_set_error("INVALID_FILE", "firmware is too large"),
                         self1, "size_max", v.offset, NULL, v.calls, <<>>)
        ELSE fu_firmware_parse_stream_hooks(self1, stream, streamsz, v.offset, flags, hk, v.calls)

----------------------------------------------------------------------------------------------------------------------------------------
(* The probe chain *)

\* faulty variant: only the last candidate's error is kept
fu_firmware_new_from_gtypes_error_last(error_all, error_local) == Some(error_local)

\* error_all after a candidate failed with error_local
fu_firmware_new_from_gtypes_error(error_all, error_local) ==
    IF error_all = NULL
    THEN Some(error_local)
    ELSE Some(g_prefix_error(error_all[1], error_local.msg))

GError(r) == [ok |-> r.ok, code |-> r.code, msg |-> r.msg]

\* faulty variant: a success does not end the loop, the last candidate that parses wins
RECURSIVE fu_firmware_new_from_gtypes_try_all(_, _, _, _, _, _, _, _)
fu_firmware_new_from_gtypes_try_all(stream, offset, flags, gtypes, hks, i, error_all, tried) ==
    IF i > Len(gtypes)
    THEN [firmware |-> NULL, err |-> error_all[1], tried |-> tried]
    ELSE LET firmware == g_object_new(gtypes[i])
             r == fu_firmware_parse_stream(firmware, stream, offset, flags, hks[i])
             rest == fu_firmware_new_from_gtypes_try_all(
                         stream, offset, flags, gtypes, hks, i + 1,
                         fu_firmware_new_from_gtypes_error(error_all, GError(r)),
                         Append(tried, gtypes[i]))
         IN  IF ~r.ok \/ rest.firmware # NULL
             THEN rest
             ELSE [firmware |-> Some(r.self), err |-> G_OK, tried |-> rest.tried]

\* the loop of fu_firmware_new_from_gtypes from candidate i on; `tried' are the
\* GTypes a parse was attempted with so far
RECURSIVE fu_firmware_new_from_gtypes_try(_, _, _, _, _, _, _, _)
fu_firmware_new_from_gtypes_try(stream, offset, flags, gtypes, hks, i, error_all, tried) ==
    IF i > Len(gtypes)
    THEN [firmware |-> NULL, err |-> error_all[1], tried |-> tried]
    ELSE LET firmware == g_object_new(gtypes[i])
             r == fu_firmware_parse_stream(firmware, stream, offset, flags, hks[i])
         IN  IF ~r.ok
             THEN fu_firmware_new_from_gtypes_try(
                      stream, offset, flags, gtypes, hks, i + 1,
                      fu_firmware_new_from_gtypes_error(error_all, GError(r)),
                      Append(tried, gtypes[i]))
             ELSE [firmware |-> Some(r.self), err |-> G_OK, tried |-> Append(tried, gtypes[i])]

\* hks[i] is the outcome of the hooks of candidate i
fu_firmware_new_from_gtypes(stream, offset, flags, gtypes, hks) ==
    IF Len(gtypes) = 0
    THEN [firmware |-> NULL, err |-> g_set_error("NOTHING_TO_DO", "no GTypes specified"),
          tried |-> <<>>]
    ELSE fu_firmware_new_from_gtypes_try(stream, offset, flags, gtypes, hks, 1, NULL, <<>>)

----------------------------------------------------------------------------
(* The tree of images *)

FU_FIRMWARE_IMAGE_DEPTH_MAX == 50

fu_firmware_set_images_max(self, images_max) == [self EXCEPT !.images_max = images_max]

g_object_ref(heap, object) == [heap EXCEPT ![object].ref_count = @ + 1]

\* g_object_remove_weak_pointer: the location &priv->parent of `self' is no
\* longer cleared when `object' is finalized
g_object_remove_weak_pointer(heap, object, self) ==
    [heap EXCEPT ![object].weak_pointers = @ \ {self}]

\* g_object_add_weak_pointer
g_object_add_weak_pointer(heap, object, self) ==
    [heap EXCEPT ![object].weak_pointers = @ \cup {self}]

fu_firmware_get_parent(self) == self.parent

fu_firmware_set_parent(heap, self, parent) ==
    LET priv == heap[self]
        heap1 == IF priv.parent # NULL
                 THEN g_object_remove_weak_pointer(heap, priv.parent[1], self)
                 ELSE heap
        heap2 == IF parent # NULL
                 THEN g_object_add_weak_pointer(heap1, parent[1], self)
                 ELSE heap1
    IN  [heap2 EXCEPT ![self].parent = parent]

fu_firmware_set_depth(self, depth) == [self EXCEPT !.depth = depth]

fu_firmware_get_depth(self) == self.depth

\* the location &priv->parent of object i is set to NULL, whether or not the
\* memory of i is still that of an object
g_object_weak_notify_pointer(heap, object, i) ==
    [heap EXCEPT ![i].parent = NULL,
                 ![i].written_after_free = @ \/ heap[i].ref_count = 0,
                 ![object].weak_pointers = @ \ {i}]

RECURSIVE g_object_weak_notify(_, _)
\* GObject clears every registered weak pointer when the object is disposed
g_object_weak_notify(heap, object) ==
    IF heap[object].weak_pointers = {} THEN heap
    ELSE g_object_weak_notify(
             g_object_weak_notify_pointer(heap, object, CHOOSE i \in heap[object].weak_pointers : TRUE),
             object)

\* faulty variant: the registration on the parent outlives the object
fu_firmware_finalize_parent_kept(heap, self) == heap

\* fu_firmware_finalize: the registration on the parent is released
fu_firmware_finalize_parent(heap, self) ==
    IF heap[self].parent # NULL
    THEN g_object_remove_weak_pointer(heap, heap[self].parent[1], self)
    ELSE heap

RECURSIVE g_object_unref(_, _)
RECURSIVE g_ptr_array_unref(_, _, _)

\* g_ptr_array_unref of priv->images: the free function g_object_unref is
\* called on every element from index i on
g_ptr_array_unref(heap, array, i) ==
    IF i > Len(array) THEN heap
    ELSE g_ptr_array_unref(g_object_unref(heap, array[i]), array, i + 1)

\* fu_firmware_finalize, for the fields of the tree
fu_firmware_finalize(heap, self) ==
    g_ptr_array_unref(fu_firmware_finalize_parent(heap, self), heap[self].images, 1)

\* the last reference disposes (weak pointers are cleared) and finalizes
g_object_unref(heap, object) ==
    IF heap[object].ref_count > 1
    THEN [heap EXCEPT ![object].ref_count = @ - 1]
    ELSE fu_firmware_finalize(
             [g_object_weak_notify(heap, object) EXCEPT ![object].ref_count = 0],
             object)

\* g_ptr_array_remove_index on priv->images, whose free function is g_object_unref
g_ptr_array_remove_index(heap, self, i) ==
    g_object_unref(
        [heap EXCEPT ![self].images = SubSeq(@, 1, i - 1) \o SubSeq(@, i + 1, Len(@))],
        heap[self].images[i])

fu_firmware_get_id(self) == self.id

fu_firmware_get_idx(self) == self.idx

\* the first index of `same' is removed from the images of `self'
fu_firmware_dedupe_remove(heap, self, same) ==
    IF same = {} THEN heap
    ELSE g_ptr_array_remove_index(heap, self, CHOOSE i \in same : \A j \in same : i <= j)

\* faulty variant: an image with the same id is kept
fu_firmware_dedupe_id_never(heap, self, img) == heap

\* DEDUPE_ID: the first image with the id of img is removed (g_strcmp0: two
\* unset ids are equal)
fu_firmware_dedupe_id(heap, self, img) ==
    fu_firmware_dedupe_remove(heap, self,
        {i \in DOMAIN heap[self].images :
            fu_firmware_get_id(heap[heap[self].images[i]]) = fu_firmware_get_id(heap[img])})

\* DEDUPE_IDX: the first image with the idx of img is removed
fu_firmware_dedupe_idx(heap, self, img) ==
    fu_firmware_dedupe_remove(heap, self,
        {i \in DOMAIN heap[self].images :
            fu_firmware_get_idx(heap[heap[self].images[i]]) = fu_firmware_get_idx(heap[img])})

\* the depth check of fu_firmware_add_image_full
fu_firmware_add_image_too_deep(self) == self.depth > FU_FIRMWARE_IMAGE_DEPTH_MAX

\* `self' and `img' are objects of the heap; returns the heap and the error
fu_firmware_add_image_full(heap, self, img) ==
    LET heap1 == IF "DEDUPE_ID" \in heap[self].flags
                 THEN fu_firmware_dedupe_id(heap, self, img)
                 ELSE heap
        heap2 == IF "DEDUPE_IDX" \in heap1[self].flags
                 THEN fu_firmware_dedupe_idx(heap1, self, img)
                 ELSE heap1
        heap3 == [g_object_ref(heap2, img) EXCEPT ![self].images = Append(@, img)]
        heap4 == fu_firmware_set_parent(heap3, img, Some(self))
        heap5 == [heap4 EXCEPT ![img] = fu_firmware_set_depth(@, heap4[self].depth + 1)]
    IN  IF fu_firmware_add_image_too_deep(heap[self])
        THEN [heap |-> heap,
              err |-> g_set_error("INVALID_DATA", "images are nested too deep")]
        ELSE IF heap2[self].images_max > 0 /\ Len(heap2[self].images) >= heap2[self].images_max
        THEN [heap |-> heap2, err |-> g_set_error("INVALID_DATA", "too many images")]
        ELSE [heap |-> heap5, err |-> G_OK]

\* g_ptr_array_remove: the first element equal to img is removed and unreferenced
fu_firmware_remove_image(heap, self, img) ==
    LET found == {i \in DOMAIN heap[self].images : heap[self].images[i] = img}
    IN  IF found # {}
        THEN [heap |-> g_ptr_array_remove_index(heap, self,
                           CHOOSE i \in found : \A j \in found : i <= j),
              err |-> G_OK]
        ELSE [heap |-> heap, err |-> g_set_error("NOT_FOUND", "image not found in firmware")]

----------------------------------------------------------------------------
(* One object and its parse calls *)

\* the blobs given to fu_firmware_set_bytes: none is a slice of a stream
Blobs == {<<3>>}

NoHist == [parsed_ok |-> FALSE, hook_failed |-> FALSE, parse_calls |-> 0,
           tokenize_runs |-> 0, parse_runs |-> 0]

Count(seq, x) == Cardinality({i \in DOMAIN seq : seq[i] = x})

\* the history after a parse call with result r
HistAfter(h, r) ==
    [parsed_ok     |-> h.parsed_ok \/ r.ok,
     hook_failed   |-> h.hook_failed \/ (r.exit \in {"tokenize", "parse"} /\ ~r.ok),
     parse_calls   |-> h.parse_calls + 1,
     tokenize_runs |-> h.tokenize_runs + Count(r.hooks, "tokenize"),
     parse_runs    |-> h.parse_runs + Count(r.hooks, "parse")]

InitParse ==
    /\ \E gtype \in GTypes : objs = [i \in {1} |-> g_object_new(gtype)]
    /\ ret = [op |-> "new"]
    /\ hist = [i \in {1} |-> NoHist]

\* fu_firmware_parse_stream on object i, with the inputs drawn from the given sets
ParseStream(i, streams, offsets, flagsets) ==
    \E stream \in streams, offset \in offsets, flags \in flagsets,
       hk \in HookOutcomes(objs[i]) :
        LET r == fu_firmware_parse_stream(objs[i], stream, offset, flags, hk)
        IN  /\ objs' = [objs EXCEPT ![i] = r.self]
            /\ hist' = [hist EXCEPT ![i] = HistAfter(@, r)]
            /\ ret' = [r EXCEPT !.self = i] @@
                      [op |-> "parse_stream", pre |-> objs[i], hist |-> hist[i],
                       stream |-> stream, arg_offset |-> offset, flags |-> flags]

AddFlag(i) ==
    /\ objs' = [objs EXCEPT ![i] = fu_firmware_add_flag(@, "ALWAYS_SEARCH")]
    /\ ret' = [op |-> "add_flag"]
    /\ UNCHANGED hist

SetSizeMax(i) ==
    \E size_max \in 0..MaxSizeMax :
        /\ objs' = [objs EXCEPT ![i] = fu_firmware_set_size_max(@, size_max)]
        /\ ret' = [op |-> "set_size_max"]
        /\ UNCHANGED hist

SetAlignment(i) ==
    \E alignment \in 0..MaxAlignment :
        /\ objs' = [objs EXCEPT ![i] = fu_firmware_set_alignment(@, alignment)]
        /\ ret' = [op |-> "set_alignment"]
        /\ UNCHANGED hist

SetBytes(i) ==
    \E bytes \in Blobs, same \in BOOLEAN :
        /\ same => objs[i].bytes = Some(bytes)
        /\ objs' = [objs EXCEPT ![i] = fu_firmware_set_bytes(@, bytes, same)]
        /\ ret' = [op |-> "set_bytes"]
        /\ UNCHANGED hist

GetBytes(i) ==
    /\ ret' = fu_firmware_get_bytes(objs[i]) @@ [op |-> "get_bytes", self |-> i]
    /\ UNCHANGED <<objs, hist>>

(* SpecParse: an object is constructed and configured, parsed once from any *)
(* stream, offset and flags, and read.                                      *)
NextParse ==
    \/ /\ hist[1].parse_calls = 0
       /\ \/ ParseStream(1, Streams, 0..MaxStreamLen, SUBSET ParseFlags)
          \/ AddFlag(1)
          \/ SetSizeMax(1)
          \/ SetAlignment(1)
          \/ SetBytes(1)
    \/ GetBytes(1)

SpecParse == InitParse /\ [][NextParse]_vars

(* SpecReparse: any sequence of up to MaxParseCalls parse calls on one      *)
(* object, with the setters in between, over short streams.                 *)
MaxParseCalls == 2

ShortStreams == SeqsUpTo(Byte, 2)

NextReparse ==
    \/ /\ hist[1].parse_calls < MaxParseCalls
       /\ ParseStream(1, ShortStreams, 0..1, SUBSET {"NO_SEARCH", "CACHE_BLOB"})
    \/ AddFlag(1)
    \/ SetSizeMax(1)
    \/ SetBytes(1)

SpecReparse == InitParse /\ [][NextReparse]_vars

(* SpecPayload: the payload of one object under fu_firmware_set_bytes,     *)
(* fu_firmware_set_stream and parse calls with the cache flags.             *)

\* the size of the stream is recorded, and the stream replaces the one held;
\* priv->bytes is not touched
fu_firmware_set_stream(self, stream) ==
    [self EXCEPT !.streamsz = IF stream # NULL THEN fu_input_stream_size(stream[1]) ELSE 0,
                 !.stream = stream]

SetStream(i) ==
    \E stream \in {NULL} \cup {Some(st) : st \in ShortStreams} :
        /\ objs' = [objs EXCEPT ![i] = fu_firmware_set_stream(@, stream)]
        /\ ret' = [op |-> "set_stream"]
        /\ UNCHANGED hist

NextPayload ==
    \/ /\ hist[1].parse_calls < MaxParseCalls
       /\ ParseStream(1, ShortStreams, 0..1, SUBSET {"CACHE_BLOB", "CACHE_STREAM"})
    \/ SetBytes(1)
    \/ SetStream(1)

SpecPayload == InitParse /\ [][NextPayload]_vars

(* SpecRetry: an object with a child image, a buffer, a stream and a size   *)
(* limit is parsed up to MaxParseCalls times.                                *)
InitRetry ==
    /\ \E gtype \in {"FuFirmware", "FuMagicFirmware"} :
          objs = <<g_object_new(gtype), g_object_new("FuFirmware")>>
    /\ ret = [op |-> "new"]
    /\ hist = [i \in {1} |-> NoHist]

RetryAddImage ==
    LET r == fu_firmware_add_image_full(objs, 1, 2)
    IN  /\ objs[1].images = <<>>
        /\ r.err.ok
        /\ objs' = r.heap
        /\ ret' = [op |-> "add_image_full"]
        /\ UNCHANGED hist

NextRetry ==
    \/ /\ hist[1].parse_calls < MaxParseCalls
       /\ ParseStream(1, ShortStreams, 0..1, SUBSET {"NO_SEARCH", "CACHE_STREAM"})
    \/ RetryAddImage
    \/ SetSizeMax(1)
    \/ SetBytes(1)
    \/ SetStream(1)

SpecRetry == InitRetry /\ [][NextRetry]_vars

----------------------------------------------------------------------------
(* SpecProbe: one call of fu_firmware_new_from_gtypes on a list of         *)
(* candidate GTypes; the heap holds the object the call returned.          *)

\* Longest list of candidate GTypes
MaxGTypes == 3

ProbeGTypes == {"FuFirmware", "FuAcpiTable", "FuMagicFirmware", "FuFullFirmware"}

ProbeHooks(gtypes) ==
    {hks \in [DOMAIN gtypes -> [tokenize : BOOLEAN, parse : BOOLEAN]] :
        \A i \in DOMAIN gtypes : hks[i] \in HookOutcomes(g_object_new(gtypes[i]))}

\* the arguments of a call are drawn here: the call depends on nothing else
InitProbe ==
    /\ objs = <<>>
    /\ \E stream \in ShortStreams, offset \in 0..1, flags \in SUBSET {"NO_SEARCH"},
          gtypes \in SeqsUpTo(ProbeGTypes, MaxGTypes) :
          \E hks \in ProbeHooks(gtypes) :
              ret = [op |-> "args", stream |-> stream, arg_offset |-> offset,
                     flags |-> flags, gtypes |-> gtypes, hks |-> hks]
    /\ hist = <<>>

NewFromGTypes ==
    /\ ret.op = "args"
    /\ LET r == fu_firmware_new_from_gtypes(ret.stream, ret.arg_offset, ret.flags,
                                            ret.gtypes, ret.hks)
       IN  /\ objs' = r.firmware
           /\ ret' = [op |-> "new_from_gtypes", stream |-> ret.stream,
                      arg_offset |-> ret.arg_offset, flags |-> ret.flags,
                      gtypes |-> ret.gtypes, hks |-> ret.hks,
                      firmware |-> IF r.firmware = NULL THEN 0 ELSE 1,
                      ok |-> r.err.ok, code |-> r.err.code, msg |-> r.err.msg,
                      tried |-> r.tried]
           /\ UNCHANGED hist

NextProbe == NewFromGTypes

SpecProbe == InitProbe /\ [][NextProbe]_vars

(* SpecChain: a chain built top-down from a root, each new object added to  *)
(* the object added last.                                                   *)

\* Most objects of a chain: the root, FU_FIRMWARE_IMAGE_DEPTH_MAX + 1 levels
\* below it and one more
MaxChainObjects == 53

InitChain ==
    /\ \E flags \in SUBSET {"DEDUPE_ID", "DEDUPE_IDX"}, images_max \in 0..2 :
          objs = <<[fu_firmware_set_images_max(g_object_new("FuFirmware"), images_max)
                      EXCEPT !.flags = flags]>>
    /\ ret = [op |-> "new"]
    /\ hist = <<NoHist>>

\* the object added last: the newest one that has a parent, else the root
ChainTail ==
    LET added == {i \in DOMAIN objs : objs[i].parent # NULL}
    IN  IF added = {} THEN 1 ELSE CHOOSE i \in added : \A j \in added : j <= i

\* g_object_new() and fu_firmware_add_image_full() to the chain's tail; a
\* rejected object is dropped again
ChainAddImage ==
    /\ Len(objs) < MaxChainObjects
    /\ LET img == Len(objs) + 1
           self == ChainTail
           r == fu_firmware_add_image_full(Append(objs, g_object_new("FuFirmware")), self, img)
       IN  /\ objs' = IF r.err.ok THEN r.heap ELSE SubSeq(r.heap, 1, Len(objs))
           /\ ret' = [op |-> "add_image_full", self |-> self, img |-> img,
                      ok |-> r.err.ok, code |-> r.err.code, msg |-> r.err.msg]
           /\ hist' = IF r.err.ok THEN Append(hist, NoHist) ELSE hist

NextChain == ChainAddImage

SpecChain == InitChain /\ [][NextChain]_vars

(* SpecTree: a set of objects held by the caller, and any sequence of       *)
(* fu_firmware_add_image_full and fu_firmware_remove_image between them.    *)

\* Objects of the tree specification
MaxTreeObjects == 3

\* Longest list of images an addition is made to
MaxImages == 2

\* Largest depth of an object an addition is made to: a removed object keeps
\* its depth, so depths grow without it
MaxTreeDepth == 2

Range(seq) == {seq[i] : i \in DOMAIN seq}

RECURSIVE Descendants(_, _, _)
\* the objects reached from the set S through at most n image lists
Descendants(heap, S, n) ==
    IF n = 0 THEN S
    ELSE Descendants(heap, S \cup UNION {Range(heap[i].images) : i \in S}, n - 1)

InitTree ==
    /\ objs = [i \in 1..MaxTreeObjects |-> g_object_new("FuFirmware")]
    /\ ret = [op |-> "new"]
    /\ hist = <<>>

\* an object is added to another that is not one of its own descendants
TreeAddImage ==
    \E self \in DOMAIN objs, img \in DOMAIN objs :
        /\ self \notin Descendants(objs, {img}, Len(objs))
        /\ Len(objs[self].images) < MaxImages
        /\ objs[self].depth < MaxTreeDepth
        /\ LET r == fu_firmware_add_image_full(objs, self, img)
           IN  /\ objs' = r.heap
               /\ ret' = [op |-> "add_image_full", self |-> self, img |-> img,
                          ok |-> r.err.ok, code |-> r.err.code, msg |-> r.err.msg]
               /\ UNCHANGED hist

TreeRemoveImage ==
    \E self \in DOMAIN objs, img \in DOMAIN objs :
        LET r == fu_firmware_remove_image(objs, self, img)
        IN  /\ objs' = r.heap
            /\ ret' = [op |-> "remove_image", self |-> self, img |-> img,
                       ok |-> r.err.ok, code |-> r.err.code, msg |-> r.err.msg]
            /\ UNCHANGED hist

NextTree == TreeAddImage \/ TreeRemoveImage

SpecTree == InitTree /\ [][NextTree]_vars

(* SpecImages: one parent with its dedupe flags, and children with an id   *)
(* and an idx that are created and added to it, or added to it again.       *)

\* Objects of the images specification: the parent and its children
MaxImageObjects == 4

\* Largest value given to fu_firmware_set_images_max
MaxImagesMax == 2

Ids == {Some("x"), Some("y")}

\* g_strcmp0 of the ids, then g_free and g_strdup
fu_firmware_set_id(self, id) == IF self.id = id THEN self ELSE [self EXCEPT !.id = id]

fu_firmware_set_idx(self, idx) == [self EXCEPT !.idx = idx]

InitImages ==
    /\ \E flags \in SUBSET {"DEDUPE_ID", "DEDUPE_IDX"} :
          objs = <<[g_object_new("FuFirmware") EXCEPT !.flags = flags]>>
    /\ ret = [op |-> "new"]
    /\ hist = <<>>

ImagesSetImagesMax ==
    \E images_max \in 0..MaxImagesMax :
        /\ objs' = [objs EXCEPT ![1] = fu_firmware_set_images_max(@, images_max)]
        /\ ret' = [op |-> "set_images_max"]
        /\ UNCHANGED hist

\* a child is created with its id and idx (img = 0), or a child the caller holds
\* is taken, and added to the parent
ImagesAddImage ==
    \E id \in Ids, idx \in 0..1, old \in 0..Len(objs) :
        /\ old # 1
        /\ old = 0 => Len(objs) < MaxImageObjects
        /\ old # 0 => (id = objs[old].id /\ idx = objs[old].idx)
        /\ Len(objs[1].images) < MaxImageObjects - 1
        /\ LET heap == IF old = 0
                       THEN Append(objs, fu_firmware_set_idx(
                                fu_firmware_set_id(g_object_new("FuFirmware"), id), idx))
                       ELSE objs
               img == IF old = 0 THEN Len(heap) ELSE old
               r == fu_firmware_add_image_full(heap, 1, img)
           IN  /\ objs' = r.heap
               /\ ret' = [op |-> "add_image_full", self |-> 1, img |-> img, pre |-> heap,
                          ok |-> r.err.ok, code |-> r.err.code, msg |-> r.err.msg]
               /\ UNCHANGED hist

NextImages == ImagesSetImagesMax \/ ImagesAddImage

SpecImages == InitImages /\ [][NextImages]_vars

(* SpecBuild: one call of fu_firmware_build on a new object with its       *)
(* dedupe flags, from a manifest with nested firmware elements.             *)

\* Most firmware elements directly under the manifest's root
MaxManifestImages == 2

\* a firmware element of a manifest without attributes and child elements.
\* gtype is the attribute; the other fields are the child elements: the text
\* of a string element, the number xb_node_query_text_as_uint reads from a
\* numeric element, NULL for an element that is absent; data is the data
\* element, with its text and its size attribute; firmware are the nested
\* firmware elements; build is the outcome of klass->build on the element
XbNodeNone ==
    [gtype |-> NULL, version |-> NULL, version_format |-> NULL, version_raw |-> NULL,
     id |-> NULL, idx |-> NULL, addr |-> NULL, offset |-> NULL, size |-> NULL,
     size_max |-> NULL, alignment |-> NULL, filename |-> NULL, data |-> NULL,
     chunks |-> <<>>, firmware |-> <<>>, build |-> TRUE]

\* a firmware element with the text of its id and idx elements, if any, and
\* its nested firmware elements
XbNode(id, idx, firmware) ==
    [XbNodeNone EXCEPT !.id = id, !.idx = idx, !.firmware = firmware]

ManifestLeaves ==
    {XbNode(id, idx, <<>>) : id \in Ids \cup {NULL}, idx \in {NULL, Some(0), Some(1)}}

ManifestImages ==
    ManifestLeaves \cup
    {XbNode(id, NULL, <<XbNode(sub, NULL, <<>>)>>) : id \in Ids \cup {NULL}, sub \in Ids \cup {NULL}}

Manifests == {XbNode(NULL, NULL, firmware) : firmware \in SeqsUpTo(ManifestImages, MaxManifestImages)}

\* the names fwupd_version_format_from_string knows, of which the model has two
VersionFormats == {"plain", "triplet"}

fwupd_version_format_from_string(str) == IF str \in VersionFormats THEN str ELSE "unknown"

\* klass->convert_version(): a version string made of the number and the format
klass_convert_version(self, version_raw) ==
    Some(ToString(version_raw) \o "/" \o self.version_format)

fu_firmware_set_version(self, version) ==
    IF self.version = version THEN self ELSE [self EXCEPT !.version = version]

fu_firmware_set_version_raw(self, version_raw) ==
    IF FU_FIRMWARE_GET_CLASS(self).convert_version
    THEN fu_firmware_set_version([self EXCEPT !.version_raw = version_raw],
                                 klass_convert_version(self, version_raw))
    ELSE [self EXCEPT !.version_raw = version_raw]

fu_firmware_set_version_format(self, version_format) ==
    IF self.version_format = version_format THEN self
    ELSE IF /\ FU_FIRMWARE_GET_CLASS(self).convert_version
            /\ self.version # NULL /\ self.version_raw # 0
    THEN fu_firmware_set_version(
             [self EXCEPT !.version_format = version_format],
             klass_convert_version([self EXCEPT !.version_format = version_format],
                                   self.version_raw))
    ELSE [self EXCEPT !.version_format = version_format]

fu_firmware_set_filename(self, filename) ==
    IF self.filename = filename THEN self ELSE [self EXCEPT !.filename = filename]

\* the version, version_format and version_raw elements
fu_firmware_build_version(self, n) ==
    LET self1 == IF n.version # NULL THEN fu_firmware_set_version(self, n.version) ELSE self
    IN  IF n.version_format # NULL
           /\ fwupd_version_format_from_string(n.version_format[1]) = "unknown"
        THEN [self |-> self1,
              err |-> g_set_error("INVALID_DATA",
                                  n.version_format[1] \o " is not a valid version format")]
        ELSE LET self2 == IF n.version_format # NULL
                          THEN fu_firmware_set_version_format(
                                   self1, fwupd_version_format_from_string(n.version_format[1]))
                          ELSE self1
             IN  [self |-> IF n.version_raw # NULL
                           THEN fu_firmware_set_version_raw(self2, n.version_raw[1])
                           ELSE self2,
                  err |-> G_OK]

\* the id and idx elements of the manifest, when present
fu_firmware_build_attributes(self, n) ==
    LET self1 == IF n.id # NULL THEN fu_firmware_set_id(self, n.id) ELSE self
    IN  IF n.idx # NULL THEN fu_firmware_set_idx(self1, n.idx[1]) ELSE self1

\* the largest exponent of an alignment (fu-firmware.h)
FU_FIRMWARE_ALIGNMENT_2G == 31

\* the addr, offset, size, size_max and alignment elements
fu_firmware_build_sizes(self, n) ==
    LET self1 == IF n.addr # NULL THEN fu_firmware_set_addr(self, n.addr[1]) ELSE self
        self2 == IF n.offset # NULL THEN fu_firmware_set_offset(self1, n.offset[1]) ELSE self1
        self3 == IF n.size # NULL THEN fu_firmware_set_size(self2, n.size[1]) ELSE self2
        self4 == IF n.size_max # NULL THEN fu_firmware_set_size_max(self3, n.size_max[1])
                 ELSE self3
    IN  IF n.alignment # NULL /\ n.alignment[1] > FU_FIRMWARE_ALIGNMENT_2G
        THEN [self |-> self4, err |-> g_set_error("INVALID_DATA", "invalid, maximum is 0x1f")]
        ELSE [self |-> IF n.alignment # NULL
                       THEN fu_firmware_set_alignment(self4, n.alignment[1]) ELSE self4,
              err |-> G_OK]

\* fu_bytes_get_contents(): the one file there is, "file.bin"
fu_bytes_get_contents(filename) ==
    IF filename = "file.bin" THEN G_OK @@ [bytes |-> Some(<<9, 9>>)]
    ELSE g_set_error("INVALID_FILE", "failed to open file") @@ [bytes |-> NULL]

\* the filename element
fu_firmware_build_filename(self, n) ==
    IF n.filename = NULL THEN [self |-> self, err |-> G_OK]
    ELSE IF ~fu_bytes_get_contents(n.filename[1]).ok
    THEN [self |-> self,
          err |-> [ok |-> FALSE, code |-> fu_bytes_get_contents(n.filename[1]).code,
                   msg |-> fu_bytes_get_contents(n.filename[1]).msg]]
    ELSE [self |-> fu_firmware_set_filename(
                       fu_firmware_set_bytes(self, fu_bytes_get_contents(n.filename[1]).bytes[1],
                                             FALSE),
                       n.filename),
          err |-> G_OK]

\* a base64 text is a sequence of the numbers of its characters in the
\* alphabet, 0 to 63, and Base64Pad for "="
Base64Pad == 64

\* the bytes of one group of four characters
g_base64_decode_group(g) ==
    IF g[3] = Base64Pad THEN <<g[1] * 4 + g[2] \div 16>>
    ELSE IF g[4] = Base64Pad
    THEN <<g[1] * 4 + g[2] \div 16, (g[2] % 16) * 16 + g[3] \div 4>>
    ELSE <<g[1] * 4 + g[2] \div 16, (g[2] % 16) * 16 + g[3] \div 4, (g[3] % 4) * 64 + g[4]>>

RECURSIVE g_base64_decode(_)
\* g_base64_decode() of a text of whole groups
g_base64_decode(text) ==
    IF Len(text) < 4 THEN <<>>
    ELSE g_base64_decode_group(SubSeq(text, 1, 4)) \o g_base64_decode(SubSeq(text, 5, Len(text)))

\* fu_bytes_pad(): the bytes, followed by `data' up to the size sz when they
\* are shorter
RECURSIVE fu_bytes_pad(_, _, _)
fu_bytes_pad(bytes, sz, data) ==
    IF Len(bytes) >= sz THEN bytes ELSE fu_bytes_pad(Append(bytes, data), sz, data)

\* g_bytes_new() of the decoded text of the data element, or of nothing
fu_firmware_build_blob(data) ==
    IF data.text # NULL THEN g_base64_decode(data.text[1]) ELSE <<>>

\* faulty variant: the size attribute is not looked at
fu_firmware_build_data_unpadded(self, n) ==
    IF n.data = NULL THEN self
    ELSE fu_firmware_set_bytes(self, fu_firmware_build_blob(n.data[1]), FALSE)

\* the data element: the size attribute is NULL when absent (G_MAXUINT64)
fu_firmware_build_data(self, n) ==
    IF n.data = NULL THEN self
    ELSE IF n.data[1].size = NULL \/ n.data[1].size = Some(0)
    THEN fu_firmware_set_bytes(self, fu_firmware_build_blob(n.data[1]), FALSE)
    ELSE fu_firmware_set_bytes(
             self, fu_bytes_pad(fu_firmware_build_blob(n.data[1]), n.data[1].size[1], 255),
             FALSE)

\* fu_chunk_build(): the chunk takes the address and the data of its element
fu_chunk_build(chk, c) == [chk EXCEPT !.address = c.address, !.bytes = c.data]

RECURSIVE fu_firmware_build_chunks(_, _, _)
\* the loop over the chunk elements, from the i-th on
fu_firmware_build_chunks(self, chunks, i) ==
    IF i > Len(chunks) THEN self
    ELSE fu_firmware_build_chunks(
             fu_firmware_add_chunk(
                 self, fu_chunk_build(fu_chunk_set_idx(fu_chunk_bytes_new(<<>>), i - 1),
                                      chunks[i])),
             chunks, i + 1)

\* the elements of the object itself, lines 1214 to 1308: the first failure
\* ends the call, with the fields set so far
fu_firmware_build_self(self, n) ==
    IF ~fu_firmware_build_version(self, n).err.ok THEN fu_firmware_build_version(self, n)
    ELSE LET self1 == fu_firmware_build_attributes(fu_firmware_build_version(self, n).self, n)
         IN  IF ~fu_firmware_build_sizes(self1, n).err.ok
             THEN fu_firmware_build_sizes(self1, n)
             ELSE LET self2 == fu_firmware_build_sizes(self1, n).self
                  IN  IF ~fu_firmware_build_filename(self2, n).err.ok
                      THEN fu_firmware_build_filename(self2, n)
                      ELSE [self |-> fu_firmware_build_chunks(
                                         fu_firmware_build_data(
                                             fu_firmware_build_filename(self2, n).self, n),
                                         n.chunks, 1),
                            err |-> G_OK]

\* g_type_from_name(): G_TYPE_INVALID, here NULL, for a name that is not registered
g_type_from_name(name) == IF name \in GTypes THEN Some(name) ELSE NULL

\* the GType of the image of a nested firmware element: of its gtype
\* attribute, or FuFirmware
fu_firmware_build_gtype(xb_image) ==
    IF xb_image.gtype # NULL THEN g_type_from_name(xb_image.gtype[1]) ELSE Some("FuFirmware")

\* g_object_new() for a nested firmware element: the last object of the heap
fu_firmware_build_new(heap, gtype) == Append(heap, g_object_new(gtype))

\* klass->build(): the outcome is that of the element
klass_build(heap, self, n) ==
    [heap |-> [heap EXCEPT ![self].build_calls = @ + 1],
     err |-> IF n.build THEN G_OK
             ELSE g_set_error("INVALID_DATA", heap[self].gtype \o ": build failed")]

\* faulty variant: the hook is called after a failure too
fu_firmware_build_subclassed_always(built, self, n) ==
    IF FU_FIRMWARE_GET_CLASS(built.heap[self]).build
    THEN [heap |-> klass_build(built.heap, self, n).heap,
          err |-> IF built.err.ok THEN klass_build(built.heap, self, n).err ELSE built.err]
    ELSE built

\* the end of the call: klass->build, when the class has one and nothing failed
fu_firmware_build_subclassed(built, self, n) ==
    IF built.err.ok /\ FU_FIRMWARE_GET_CLASS(built.heap[self]).build
    THEN klass_build(built.heap, self, n)
    ELSE built

RECURSIVE fu_firmware_build(_, _, _)
RECURSIVE fu_firmware_build_images(_, _, _, _)

\* the end of an iteration: g_autoptr releases the caller's reference on img
fu_firmware_build_image_done(built, self, xb_images, i, img) ==
    IF ~built.err.ok
    THEN [heap |-> g_object_unref(built.heap, img), err |-> built.err]
    ELSE fu_firmware_build_images(g_object_unref(built.heap, img), self, xb_images, i + 1)

\* the image is built from its element once it has been added
fu_firmware_build_image(added, self, xb_images, i, img) ==
    IF ~added.err.ok
    THEN [heap |-> g_object_unref(added.heap, img), err |-> added.err]
    ELSE fu_firmware_build_image_done(fu_firmware_build(added.heap, img, xb_images[i]),
                                      self, xb_images, i, img)

\* the loop over the nested firmware elements, from the i-th on: the image is
\* created and added to `self', and is built from its element only then
fu_firmware_build_images(heap, self, xb_images, i) ==
    IF i > Len(xb_images) THEN [heap |-> heap, err |-> G_OK]
    ELSE IF fu_firmware_build_gtype(xb_images[i]) = NULL
    THEN [heap |-> heap,
          err |-> g_set_error("NOT_FOUND",
                              "GType " \o xb_images[i].gtype[1] \o " not registered")]
    ELSE fu_firmware_build_image(
             fu_firmware_add_image_full(
                 fu_firmware_build_new(heap, fu_firmware_build_gtype(xb_images[i])[1]),
                 self, Len(heap) + 1),
             self, xb_images, i, Len(heap) + 1)

fu_firmware_build(heap, self, n) ==
    IF ~fu_firmware_build_self(heap[self], n).err.ok
    THEN [heap |-> [heap EXCEPT ![self] = fu_firmware_build_self(heap[self], n).self],
          err |-> fu_firmware_build_self(heap[self], n).err]
    ELSE fu_firmware_build_subclassed(
             fu_firmware_build_images(
                 [heap EXCEPT ![self] = fu_firmware_build_self(heap[self], n).self],
                 self, n.firmware, 1),
             self, n)

\* the arguments of the call are drawn here: the call depends on nothing else
InitBuild ==
    /\ \E flags \in SUBSET {"DEDUPE_ID", "DEDUPE_IDX"} :
          objs = <<[g_object_new("FuFirmware") EXCEPT !.flags = flags]>>
    /\ \E n \in Manifests : ret = [op |-> "args", n |-> n]
    /\ hist = <<>>

Build ==
    /\ ret.op = "args"
    /\ LET r == fu_firmware_build(objs, 1, ret.n)
       IN  /\ objs' = r.heap
           /\ ret' = [op |-> "build", self |-> 1, n |-> ret.n, pre |-> objs,
                      ok |-> r.err.ok, code |-> r.err.code, msg |-> r.err.msg]
           /\ UNCHANGED hist

NextBuild == Build

SpecBuild == InitBuild /\ [][NextBuild]_vars

(* SpecDeepBuild: a chain of objects is made top-down with                  *)
(* fu_firmware_add_image_full, and fu_firmware_build is called on its last  *)
(* object with a manifest whose firmware elements are nested one in another.*)

\* Most objects of the chain: the root and FU_FIRMWARE_IMAGE_DEPTH_MAX + 1
\* levels below it
MaxDeepObjects == 52

\* Deepest nesting of the firmware elements of the manifest
MaxBuildDepth == 3

RECURSIVE NestedManifest(_)
\* a firmware element with k levels of firmware elements nested in it
NestedManifest(k) ==
    IF k = 0 THEN XbNodeNone
    ELSE [XbNodeNone EXCEPT !.firmware = <<NestedManifest(k - 1)>>]

InitDeepBuild ==
    /\ objs = <<g_object_new("FuFirmware")>>
    /\ ret = [op |-> "new"]
    /\ hist = <<>>

\* g_object_new() and fu_firmware_add_image_full() to the chain's tail
DeepAddImage ==
    /\ ret.op # "build"
    /\ Len(objs) < MaxDeepObjects
    /\ LET r == fu_firmware_add_image_full(Append(objs, g_object_new("FuFirmware")),
                                           ChainTail, Len(objs) + 1)
       IN  /\ r.err.ok
           /\ objs' = r.heap
           /\ ret' = [op |-> "add_image_full", ok |-> r.err.ok]
           /\ UNCHANGED hist

\* fu_firmware_build on the chain's tail
DeepBuild ==
    /\ ret.op # "build"
    /\ \E k \in 0..MaxBuildDepth :
          LET r == fu_firmware_build(objs, ChainTail, NestedManifest(k))
          IN  /\ objs' = r.heap
              /\ ret' = [op |-> "build", self |-> ChainTail, n |-> NestedManifest(k),
                         pre |-> objs, ok |-> r.err.ok, code |-> r.err.code,
                         msg |-> r.err.msg]
              /\ UNCHANGED hist

NextDeepBuild == DeepAddImage \/ DeepBuild

SpecDeepBuild == InitDeepBuild /\ [][NextDeepBuild]_vars

(* SpecManifest: one call of fu_firmware_build on a new object, from a      *)
(* manifest with version, alignment and data elements and nested firmware   *)
(* elements with a gtype attribute.                                         *)

\* the text of g_base64_encode() for a group of up to three bytes
g_base64_encode_group(b) ==
    IF Len(b) = 1 THEN <<b[1] \div 4, (b[1] % 4) * 16, Base64Pad, Base64Pad>>
    ELSE IF Len(b) = 2
    THEN <<b[1] \div 4, (b[1] % 4) * 16 + b[2] \div 16, (b[2] % 16) * 4, Base64Pad>>
    ELSE <<b[1] \div 4, (b[1] % 4) * 16 + b[2] \div 16, (b[2] % 16) * 4 + b[3] \div 64,
           b[3] % 64>>

RECURSIVE g_base64_encode(_)
g_base64_encode(bytes) ==
    IF bytes = <<>> THEN <<>>
    ELSE IF Len(bytes) <= 3 THEN g_base64_encode_group(bytes)
    ELSE g_base64_encode_group(SubSeq(bytes, 1, 3)) \o g_base64_encode(SubSeq(bytes, 4, Len(bytes)))

\* Largest size attribute of a data element
MaxDataSize == 3

\* Most firmware elements nested in the manifest's root
MaxNestedImages == 1

\* the bytes that the data elements carry
DataBlobs == {<<1>>, <<254, 3>>, <<1, 2, 3>>, <<255, 0, 7, 9>>}

\* a text that has the bytes <<1>> and is not the text g_base64_encode gives
Base64Loose == <<0, 17, Base64Pad, Base64Pad>>

\* the texts of the data elements
Base64Texts == {g_base64_encode(b) : b \in DataBlobs} \cup {Base64Loose}

\* the bytes a text of the data elements was made of
Base64Plain(text) ==
    IF text = Base64Loose THEN <<1>> ELSE CHOOSE b \in DataBlobs : g_base64_encode(b) = text

ManifestData ==
    {NULL} \cup {Some([text |-> text, size |-> size]) :
                    text \in {NULL} \cup {Some(t) : t \in Base64Texts},
                    size \in {NULL} \cup {Some(sz) : sz \in 0..MaxDataSize}}

ManifestNested ==
    {[XbNodeNone EXCEPT !.gtype = gtype, !.build = build] :
        gtype \in {NULL, Some("FuFullFirmware"), Some("FuBogus")}, build \in BOOLEAN}

ManifestFields ==
    {[XbNodeNone EXCEPT !.version = version, !.version_format = version_format,
                        !.alignment = alignment, !.data = data, !.firmware = firmware,
                        !.build = build] :
        version \in {NULL, Some("1.2")},
        version_format \in {NULL, Some("triplet"), Some("bogus")},
        alignment \in {NULL} \cup {Some(a) : a \in FU_FIRMWARE_ALIGNMENT_2G..
                                                   (FU_FIRMWARE_ALIGNMENT_2G + 1)},
        data \in ManifestData,
        firmware \in SeqsUpTo(ManifestNested, MaxNestedImages),
        build \in BOOLEAN}

\* the arguments of the call are drawn here: the call depends on nothing else
InitManifest ==
    /\ \E gtype \in {"FuFirmware", "FuFullFirmware"} : objs = <<g_object_new(gtype)>>
    /\ \E n \in ManifestFields : ret = [op |-> "args", n |-> n]
    /\ hist = <<>>

NextManifest == Build

SpecManifest == InitManifest /\ [][NextManifest]_vars

----------------------------------------------------------------------------
(* fu_firmware_export: the manifest of an object and of its images          *)

\* a gsize or guint64 on a 64-bit build, as its two 32-bit halves: the value is
\* hi * 2^32 + lo
gsize(hi, lo) == [hi |-> hi, lo |-> lo]

\* the cast (guint) of a gsize keeps the low 32 bits
guint(v) == v.lo

\* the guint64 of a number of the model, which is below 2^31
guint64(n) == gsize(0, n)

\* the digits of "%x"
HexDigits == <<"0", "1", "2", "3", "4", "5", "6", "7", "8", "9", "a", "b", "c", "d", "e", "f">>

\* "%x" of a guint
RECURSIVE g_strdup_printf_x(_)
g_strdup_printf_x(n) ==
    IF n < 16 THEN HexDigits[n + 1]
    ELSE g_strdup_printf_x(n \div 16) \o HexDigits[(n % 16) + 1]

\* the element that is inserted for a string, if any: NULL is no element,
\* Some(text) an element with that text
fu_xmlb_builder_insert_kv(value) == IF value = NULL THEN NULL ELSE value

\* faulty variant: no element for the number 1 either
fu_xmlb_builder_insert_kx_above_one(value) ==
    IF value.hi = 0 /\ value.lo <= 1 THEN NULL
    ELSE Some("0x" \o g_strdup_printf_x(guint(value)))

\* the element that is inserted for a guint64, if any: none for 0, else
\* "0x%x" of the value cast to guint
fu_xmlb_builder_insert_kx(value) ==
    IF value = gsize(0, 0) THEN NULL ELSE Some("0x" \o g_strdup_printf_x(guint(value)))

\* the names of the flags, which the text lists
fu_firmware_flags_to_string(flags) == Some(flags)

fwupd_version_format_to_string(version_format) == Some(version_format)

\* the printable characters of the buffer, a dot for each other byte
fu_memstrsafe(buf) ==
    Some([i \in 1..Len(buf) |-> IF buf[i] >= 32 /\ buf[i] < 127 THEN buf[i] ELSE 46])

\* the text of the data element
fu_firmware_export_datastr(buf, flags) ==
    IF "ASCII_DATA" \in flags THEN fu_memstrsafe(buf) ELSE Some(g_base64_encode(buf))

\* faulty variant: the empty buffer is exported as the other buffers are
fu_firmware_export_data_of_any(self, flags) ==
    IF self.stream # NULL
    THEN Some([text |-> fu_firmware_export_datastr(
                            fu_input_stream_read_bytes(self.stream[1], 0, self.streamsz), flags),
               type |-> Some("GInputStream"),
               size |-> Some("0x" \o g_strdup_printf_x(self.streamsz))])
    ELSE IF self.bytes # NULL
    THEN Some([text |-> fu_firmware_export_datastr(self.bytes[1], flags),
               type |-> Some("GBytes"),
               size |-> Some("0x" \o g_strdup_printf_x(Len(self.bytes[1])))])
    ELSE NULL

\* the data element of the object, if any: its text and its attributes
fu_firmware_export_data(self, flags) ==
    IF self.stream # NULL
    THEN Some([text |-> IF self.streamsz <= 256
                        THEN fu_firmware_export_datastr(
                                 fu_input_stream_read_bytes(self.stream[1], 0, self.streamsz),
                                 flags)
                        ELSE NULL,
               type |-> Some("GInputStream"),
               size |-> Some("0x" \o g_strdup_printf_x(self.streamsz))])
    ELSE IF self.bytes # NULL /\ Len(self.bytes[1]) = 0
    THEN Some([text |-> NULL, type |-> Some("GBytes"), size |-> NULL])
    ELSE IF self.bytes # NULL
    THEN Some([text |-> fu_firmware_export_datastr(self.bytes[1], flags),
               type |-> Some("GBytes"),
               size |-> Some("0x" \o g_strdup_printf_x(Len(self.bytes[1])))])
    ELSE NULL

\* the chunk element of a chunk
fu_chunk_export(chk, flags) ==
    [idx |-> fu_xmlb_builder_insert_kx(guint64(chk.idx)),
     addr |-> fu_xmlb_builder_insert_kx(guint64(chk.address)),
     data |-> fu_firmware_export_datastr(chk.bytes, flags),
     size |-> fu_xmlb_builder_insert_kx(guint64(Len(chk.bytes)))]

\* the chunks element, which is absent without chunks
fu_firmware_export_chunks(self, flags) ==
    [i \in 1..Len(g_ptr_array_or_empty(self.chunks)) |->
        fu_chunk_export(self.chunks[1][i], flags)]

\* the gtype attribute, if any
fu_firmware_export_gtype(self) ==
    IF self.gtype # "FuFirmware" THEN Some(self.gtype) ELSE NULL

\* the attribute and the child elements that are made of the object's own
\* fields; export is whether klass->export added the elements of the format
fu_firmware_export_self(self, flags) ==
    [gtype |-> fu_firmware_export_gtype(self),
     flags |-> IF self.flags # {}
               THEN fu_xmlb_builder_insert_kv(fu_firmware_flags_to_string(self.flags))
               ELSE NULL,
     id |-> fu_xmlb_builder_insert_kv(self.id),
     idx |-> fu_xmlb_builder_insert_kx(guint64(self.idx)),
     version |-> fu_xmlb_builder_insert_kv(self.version),
     version_raw |-> fu_xmlb_builder_insert_kx(guint64(self.version_raw)),
     version_format |-> IF self.version_format # "unknown"
                        THEN fu_xmlb_builder_insert_kv(
                                 fwupd_version_format_to_string(self.version_format))
                        ELSE NULL,
     addr |-> fu_xmlb_builder_insert_kx(guint64(self.addr)),
     offset |-> fu_xmlb_builder_insert_kx(guint64(self.offset)),
     alignment |-> fu_xmlb_builder_insert_kx(guint64(self.alignment)),
     size |-> fu_xmlb_builder_insert_kx(guint64(self.size)),
     size_max |-> fu_xmlb_builder_insert_kx(guint64(self.size_max)),
     filename |-> fu_xmlb_builder_insert_kv(self.filename),
     data |-> fu_firmware_export_data(self, flags),
     chunks |-> fu_firmware_export_chunks(self, flags),
     export |-> FU_FIRMWARE_GET_CLASS(self).export]

\* the firmware element of the object `self' of the heap: the elements of
\* its own fields and, in the order of priv->images, the firmware elements
\* of its images
RECURSIVE fu_firmware_export(_, _, _)
fu_firmware_export(heap, self, flags) ==
    fu_firmware_export_self(heap[self], flags) @@
    [firmware |-> [i \in 1..Len(heap[self].images) |->
                      fu_firmware_export(heap, heap[self].images[i], flags)]]

(* SpecExport: the fields of one object are set, and the object is exported. *)

\* the strings and the numbers the fields are set to
ExportStrings == {NULL, Some(""), Some("a")}

ExportNumbers == {0, 1, 26}

ExportFlags == SUBSET {"ASCII_DATA"}

InitExport ==
    /\ \E gtype \in {"FuFirmware", "FuFullFirmware"} : objs = <<g_object_new(gtype)>>
    /\ ret = [op |-> "new"]
    /\ hist = <<>>

\* a setter has run on the object
ExportSet(self) ==
    /\ objs' = [objs EXCEPT ![1] = self]
    /\ ret' = [op |-> "set"]
    /\ UNCHANGED hist

ExportSetId == \E id \in ExportStrings : ExportSet(fu_firmware_set_id(objs[1], id))

ExportSetVersion ==
    \E version \in ExportStrings : ExportSet(fu_firmware_set_version(objs[1], version))

ExportSetFilename ==
    \E filename \in ExportStrings : ExportSet(fu_firmware_set_filename(objs[1], filename))

ExportSetVersionFormat ==
    \E version_format \in {"unknown", "triplet"} :
        ExportSet(fu_firmware_set_version_format(objs[1], version_format))

ExportSetVersionRaw ==
    \E version_raw \in {0, 1} : ExportSet(fu_firmware_set_version_raw(objs[1], version_raw))

ExportSetIdx == \E idx \in ExportNumbers : ExportSet(fu_firmware_set_idx(objs[1], idx))

ExportSetAddr == \E addr \in {0, 1} : ExportSet(fu_firmware_set_addr(objs[1], addr))

ExportSetOffset == \E offset \in {0, 1} : ExportSet(fu_firmware_set_offset(objs[1], offset))

ExportSetAlignment ==
    \E alignment \in {0, 1} : ExportSet(fu_firmware_set_alignment(objs[1], alignment))

ExportSetSize == \E size \in {0, 1} : ExportSet(fu_firmware_set_size(objs[1], size))

ExportSetSizeMax ==
    \E size_max \in {0, 1} : ExportSet(fu_firmware_set_size_max(objs[1], size_max))

Export ==
    \E flags \in ExportFlags :
        /\ ret' = [op |-> "export", self |-> 1, flags |-> flags,
                   bn |-> fu_firmware_export(objs, 1, flags)]
        /\ UNCHANGED <<objs, hist>>

NextExport ==
    \/ ExportSetId
    \/ ExportSetVersion
    \/ ExportSetFilename
    \/ ExportSetVersionFormat
    \/ ExportSetVersionRaw
    \/ ExportSetIdx
    \/ ExportSetAddr
    \/ ExportSetOffset
    \/ ExportSetAlignment
    \/ ExportSetSize
    \/ ExportSetSizeMax
    \/ Export

SpecExport == InitExport /\ [][NextExport]_vars

(* SpecRoundTrip: fu_firmware_build on a new object, from a manifest with a  *)
(* version, a version format and nested firmware elements with an id and a  *)
(* data element, and then fu_firmware_export of the object.                 *)

\* Most firmware elements nested in the manifest's root
MaxRoundTripImages == 2

\* the data elements of the nested firmware elements: none, one without
\* text, one with a text
RoundTripData ==
    {NULL, Some([text |-> NULL, size |-> NULL])} \cup
    {Some([text |-> Some(t), size |-> NULL]) : t \in Base64Texts}

RoundTripImages == {[XbNodeNone EXCEPT !.id = id, !.data = data] : id \in Ids, data \in RoundTripData}

RoundTripManifests ==
    {[XbNodeNone EXCEPT !.version = version, !.version_format = Some(version_format),
                        !.firmware = firmware, !.build = build] :
        version \in {Some("1.2"), Some("7")},
        version_format \in VersionFormats,
        firmware \in SeqsUpTo(RoundTripImages, MaxRoundTripImages),
        build \in BOOLEAN}

\* the arguments of the call of fu_firmware_build are drawn here
InitRoundTrip ==
    /\ \E gtype \in {"FuFirmware", "FuFullFirmware"} : objs = <<g_object_new(gtype)>>
    /\ \E n \in RoundTripManifests :
          /\ FU_FIRMWARE_GET_CLASS(objs[1]).build \/ n.build
          /\ ret = [op |-> "args", n |-> n]
    /\ hist = <<>>

\* the export of the object that was built; n is the manifest it was built
\* from and built whether fu_firmware_build returned TRUE
RoundTripExport ==
    /\ ret.op = "build"
    /\ \E flags \in ExportFlags :
          ret' = [op |-> "export", self |-> 1, flags |-> flags, n |-> ret.n, built |-> ret.ok,
                  bn |-> fu_firmware_export(objs, 1, flags)]
    /\ UNCHANGED <<objs, hist>>

NextRoundTrip == Build \/ RoundTripExport

SpecRoundTrip == InitRoundTrip /\ [][NextRoundTrip]_vars

(* SpecNumbers: the elements of the 64-bit fields idx, version_raw, addr and *)
(* offset of an object are written as fu_firmware_export writes them, and a *)
(* new object is built from a manifest with these elements.                 *)

\* Largest high half of the value of a field
MaxNumberHigh == 1

\* the values of the fields of the object that is exported: 0, numbers below
\* 2^32, 2^32 itself and numbers above it
Numbers64 == {gsize(hi, lo) : hi \in 0..MaxNumberHigh, lo \in ExportNumbers}

NumberFields64 == {"idx", "version_raw", "addr", "offset"}

\* the numbers that the text of a numeric element of a manifest stands for
XbNumbers == 0..31

\* xb_node_query_text_as_uint: the number a hexadecimal text stands for;
\* G_MAXUINT64, here NULL, when there is no element or no number in it
xb_node_query_text_as_uint(text) ==
    IF text = NULL \/ \A v \in XbNumbers : text[1] # "0x" \o g_strdup_printf_x(v)
    THEN NULL
    ELSE Some(CHOOSE v \in XbNumbers : text[1] = "0x" \o g_strdup_printf_x(v))

\* hist: the values of the four fields of the object that is exported
InitNumbers ==
    /\ objs = <<g_object_new("FuFirmware")>>
    /\ ret = [op |-> "new"]
    /\ hist \in [NumberFields64 -> Numbers64]

\* the elements fu_firmware_export inserts for the four fields
NumbersExport ==
    /\ ret.op = "new"
    /\ ret' = [op |-> "export",
               bn |-> [f \in NumberFields64 |-> fu_xmlb_builder_insert_kx(hist[f])]]
    /\ UNCHANGED <<objs, hist>>

\* fu_firmware_build on the new object, from the elements of the export
NumbersBuild ==
    /\ ret.op = "export"
    /\ LET n == [XbNodeNone EXCEPT
                    !.idx = xb_node_query_text_as_uint(ret.bn["idx"]),
                    !.version_raw = xb_node_query_text_as_uint(ret.bn["version_raw"]),
                    !.addr = xb_node_query_text_as_uint(ret.bn["addr"]),
                    !.offset = xb_node_query_text_as_uint(ret.bn["offset"])]
           r == fu_firmware_build(objs, 1, n)
       IN  /\ objs' = r.heap
           /\ ret' = [op |-> "build_numbers", self |-> 1, n |-> n, pre |-> objs,
                      ok |-> r.err.ok, code |-> r.err.code, msg |-> r.err.msg]
           /\ UNCHANGED hist

NextNumbers == NumbersExport \/ NumbersBuild

SpecNumbers == InitNumbers /\ [][NextNumbers]_vars

(* SpecLife: objects the caller holds one reference on each; images are    *)
(* added and removed, and the caller drops its references in any order.     *)

\* Objects of the lifetime specification
MaxLifeObjects == 3

\* Longest list of images, and largest depth, of an object an addition is
\* made to in the lifetime specification
MaxLifeImages == 1

\* the objects that have not been finalized
Alive(heap) == {i \in DOMAIN heap : heap[i].ref_count > 0}

\* the objects finalized by a step from heap to after, while the parent they
\* point to stays alive
ChildrenFinalized(heap, after) ==
    {c \in Alive(heap) \ Alive(after) :
        heap[c].parent # NULL /\ heap[c].parent[1] \in Alive(after)}

\* hist: the objects the caller holds a reference on, and whether an object
\* was finalized before the parent it pointed to
InitLife ==
    /\ objs = [i \in 1..MaxLifeObjects |-> g_object_new("FuFirmware")]
    /\ ret = [op |-> "new"]
    /\ hist = [held |-> 1..MaxLifeObjects, child_first |-> FALSE]

HistLife(after, held) ==
    [held |-> held,
     child_first |-> hist.child_first \/ ChildrenFinalized(objs, after) # {}]

RECURSIVE Freed(_, _)
\* the heap whose finalized objects, from the i-th on, hold no data: the
\* memory of a finalized object is not the program's any more, only the
\* record of a write into it is kept
Freed(heap, i) ==
    IF i > Len(heap) THEN heap
    ELSE IF heap[i].ref_count > 0 THEN Freed(heap, i + 1)
    ELSE Freed([heap EXCEPT ![i] =
                   [g_object_new(heap[i].gtype) EXCEPT
                       !.ref_count = 0,
                       !.written_after_free = heap[i].written_after_free]],
               i + 1)

\* an image is added while it is in no list of images
LifeAddImage ==
    \E self \in Alive(objs), img \in Alive(objs) :
        /\ self \notin Descendants(objs, {img}, Len(objs))
        /\ Len(objs[self].images) < MaxLifeImages
        /\ objs[self].depth < MaxLifeImages
        /\ \A p \in Alive(objs) : img \notin Range(objs[p].images)
        /\ LET r == fu_firmware_add_image_full(objs, self, img)
           IN  /\ objs' = Freed(r.heap, 1)
               /\ ret' = [op |-> "add_image_full", ok |-> r.err.ok, orphans |-> {}]
               /\ hist' = HistLife(r.heap, hist.held)

LifeRemoveImage ==
    \E self \in Alive(objs), img \in Alive(objs) :
        LET r == fu_firmware_remove_image(objs, self, img)
        IN  /\ objs' = Freed(r.heap, 1)
            /\ ret' = [op |-> "remove_image", ok |-> r.err.ok, orphans |-> {}]
            /\ hist' = HistLife(r.heap, hist.held)

\* the caller drops its reference; orphans are the objects still alive whose
\* parent was finalized by the call
LifeUnref ==
    \E object \in hist.held :
        LET heap == g_object_unref(objs, object)
        IN  /\ objs' = Freed(heap, 1)
            /\ ret' = [op |-> "unref", self |-> object, ok |-> TRUE,
                       orphans |-> {c \in Alive(heap) :
                                       /\ objs[c].parent # NULL
                                       /\ objs[c].parent[1] \notin Alive(heap)}]
            /\ hist' = HistLife(heap, hist.held \ {object})

NextLife == LifeAddImage \/ LifeRemoveImage \/ LifeUnref

SpecLife == InitLife /\ [][NextLife]_vars

----------------------------------------------------------------------------
(* Patches *)

\* "%x" of a guint below 10
FormatHex(n) == ToString(n)

FuFirmwarePatch(offset, blob) == [offset |-> offset, blob |-> blob]

\* faulty variant: the patches of the same offset, whatever their size
fu_firmware_find_patch_by_offset(patches, offset, blob) ==
    {i \in DOMAIN patches : patches[i].offset = offset}

\* the patches of the same offset and of a blob of the same size
fu_firmware_find_patch(patches, offset, blob) ==
    {i \in DOMAIN patches :
        patches[i].offset = offset /\ Len(patches[i].blob) = Len(blob)}

\* faulty variant: the patch is added even when one of the same offset and
\* size exists
fu_firmware_add_patch_append(self, offset, blob) ==
    [self EXCEPT !.patches = Some(Append(g_ptr_array_or_empty(self.patches),
                                         FuFirmwarePatch(offset, blob)))]

fu_firmware_add_patch(self, offset, blob) ==
    LET patches == g_ptr_array_or_empty(self.patches)
        found == fu_firmware_find_patch(patches, offset, blob)
    IN  IF found # {}
        THEN [self EXCEPT !.patches =
                 Some([patches EXCEPT ![CHOOSE i \in found : \A j \in found : i <= j].blob = blob])]
        ELSE [self EXCEPT !.patches = Some(Append(patches, FuFirmwarePatch(offset, blob)))]

\* fu_memcpy_safe(dst, dst_sz, dst_offset, src, src_sz, 0x0, n) with n = src_sz,
\* n > 0: the copy is made when it stays inside dst, else nothing is copied
fu_memcpy_safe(dst, dst_offset, src) ==
    IF dst_offset.hi = 0 /\ dst_offset.lo + Len(src) <= Len(dst)
    THEN [err |-> G_OK,
          dst |-> SubSeq(dst, 1, dst_offset.lo) \o src \o
                  SubSeq(dst, dst_offset.lo + Len(src) + 1, Len(dst))]
    ELSE [err |-> g_set_error("WRITE", "attempted to write outside the buffer"), dst |-> dst]

RECURSIVE fu_firmware_apply_patches_reversed(_, _, _)
\* faulty variant: the loop runs over the patches from the last to the first
fu_firmware_apply_patches_reversed(buf, patches, i) ==
    IF i > Len(patches) THEN [err |-> G_OK, buf |-> buf]
    ELSE IF ~fu_memcpy_safe(buf, patches[Len(patches) + 1 - i].offset,
                            patches[Len(patches) + 1 - i].blob).err.ok
    THEN [err |-> g_prefix_error(fu_memcpy_safe(buf, patches[Len(patches) + 1 - i].offset,
                                                patches[Len(patches) + 1 - i].blob).err,
                                 <<"failed to apply patch @0x" \o
                                   FormatHex(guint(patches[Len(patches) + 1 - i].offset)) \o ": ">>),
          buf |-> buf]
    ELSE fu_firmware_apply_patches_reversed(
             fu_memcpy_safe(buf, patches[Len(patches) + 1 - i].offset,
                            patches[Len(patches) + 1 - i].blob).dst,
             patches, i + 1)

RECURSIVE fu_firmware_apply_patches(_, _, _)
\* the loop of fu_firmware_get_bytes_with_patches over the patches from the i-th on
fu_firmware_apply_patches(buf, patches, i) ==
    IF i > Len(patches) THEN [err |-> G_OK, buf |-> buf]
    ELSE IF ~fu_memcpy_safe(buf, patches[i].offset, patches[i].blob).err.ok
    THEN [err |-> g_prefix_error(fu_memcpy_safe(buf, patches[i].offset, patches[i].blob).err,
                                 <<"failed to apply patch @0x" \o
                                   FormatHex(guint(patches[i].offset)) \o ": ">>),
          buf |-> buf]
    ELSE fu_firmware_apply_patches(fu_memcpy_safe(buf, patches[i].offset, patches[i].blob).dst,
                                   patches, i + 1)

\* faulty variant: the patches are applied to the bytes of the stream
fu_firmware_get_bytes_with_patches_of_stream_patched(self) ==
    IF self.stream # NULL
    THEN LET got == fu_firmware_get_bytes(self)
             r == fu_firmware_apply_patches(got.bytes[1], g_ptr_array_or_empty(self.patches), 1)
         IN  IF got.ok /\ r.err.ok
             THEN G_OK @@ [bytes |-> Some(r.buf), self |-> self]
             ELSE g_set_error("INVALID_DATA", "no stream bytes") @@
                  [bytes |-> NULL, self |-> self]
    ELSE g_set_error("NOT_FOUND", "no payload set") @@ [bytes |-> NULL, self |-> self]

\* the object has no priv->bytes: the bytes of the stream, if there is one
fu_firmware_get_bytes_with_patches_of_stream(self) ==
    IF self.stream # NULL
    THEN fu_firmware_get_bytes(self) @@ [self |-> self]
    ELSE g_set_error("NOT_FOUND", "no payload set") @@ [bytes |-> NULL, self |-> self]

\* faulty variant: the patches are applied to priv->bytes itself
fu_firmware_get_bytes_with_patches_in_place(self) ==
    IF self.bytes = NULL \/ self.patches = NULL
    THEN fu_firmware_get_bytes(self) @@ [self |-> self]
    ELSE LET r == fu_firmware_apply_patches(self.bytes[1], self.patches[1], 1)
         IN  IF r.err.ok
             THEN G_OK @@ [bytes |-> Some(r.buf), self |-> [self EXCEPT !.bytes = Some(r.buf)]]
             ELSE r.err @@ [bytes |-> NULL, self |-> [self EXCEPT !.bytes = Some(r.buf)]]

\* returns the error, the bytes and the object, which no branch changes
fu_firmware_get_bytes_with_patches(self) ==
    IF self.bytes = NULL
    THEN fu_firmware_get_bytes_with_patches_of_stream(self)
    ELSE IF self.patches = NULL
    THEN fu_firmware_get_bytes(self) @@ [self |-> self]
    ELSE LET r == fu_firmware_apply_patches(self.bytes[1], self.patches[1], 1)
         IN  IF r.err.ok
             THEN G_OK @@ [bytes |-> Some(r.buf), self |-> self]
             ELSE r.err @@ [bytes |-> NULL, self |-> self]

\* klass->write(): the outcome `wr' is the call's input, a buffer or a failure
klass_write(self, wr) ==
    IF wr # NULL THEN G_OK @@ [bytes |-> wr, self |-> self]
    ELSE g_set_error("INVALID_DATA", self.gtype \o ": write failed") @@
         [bytes |-> NULL, self |-> self]

\* faulty variant: the buffer is written without the patches
fu_firmware_write_unpatched(self, wr) ==
    IF FU_FIRMWARE_GET_CLASS(self).write
    THEN klass_write(self, wr)
    ELSE fu_firmware_get_bytes(self) @@ [self |-> self]

fu_firmware_write(self, wr) ==
    IF FU_FIRMWARE_GET_CLASS(self).write
    THEN klass_write(self, wr)
    ELSE fu_firmware_get_bytes_with_patches(self)

(* SpecPatch: one object with a buffer, a stream or no payload; patches are *)
(* added, and the payload is read with the patches applied.                 *)

\* Most patches of an object
MaxPatches == 2

\* Largest low half of a patch offset
MaxPatchOffset == 1

\* the offsets below 2^32, and one above
PatchOffsets == {gsize(0, lo) : lo \in 0..MaxPatchOffset} \cup {gsize(1, 1)}

\* the blobs of the patches: none is empty
PatchBlobs == {<<1>>, <<2>>, <<1, 2>>}

PatchBuffers == {<<3, 3>>, <<3, 3, 3>>}

\* the sequence s without its elements equal to x
Without(s, x) == SelectSeq(s, LAMBDA y : y # x)

\* hist: the patch of the last fu_firmware_add_patch, whether it replaced a
\* patch of the same offset and size, and the places in the list of patches
\* in the order of the calls of fu_firmware_add_patch that wrote them last
InitPatch ==
    /\ \E gtype \in {"FuFirmware", "FuFullFirmware"} :
          \/ objs = <<g_object_new(gtype)>>
          \/ \E bytes \in PatchBuffers :
                 objs = <<fu_firmware_set_bytes(g_object_new(gtype), bytes, FALSE)>>
          \/ objs = <<fu_firmware_set_stream(g_object_new(gtype), Some(<<1, 2>>))>>
    /\ ret = [op |-> "new"]
    /\ hist = [last_patch |-> NULL, replaced |-> FALSE, order |-> <<>>]

AddPatch ==
    \E offset \in PatchOffsets, blob \in PatchBlobs :
        LET self == fu_firmware_add_patch(objs[1], offset, blob)
        IN  /\ Len(self.patches[1]) <= MaxPatches
            /\ objs' = [objs EXCEPT ![1] = self]
            /\ ret' = [op |-> "add_patch", pre |-> objs[1], offset |-> offset, blob |-> blob]
            /\ hist' = [last_patch |-> Some(FuFirmwarePatch(offset, blob)),
                        replaced |-> fu_firmware_find_patch(
                                         g_ptr_array_or_empty(objs[1].patches), offset, blob) # {},
                        order |-> LET found == fu_firmware_find_patch(
                                          g_ptr_array_or_empty(objs[1].patches), offset, blob)
                                  IN  IF found = {}
                                      THEN Append(hist.order, Len(self.patches[1]))
                                      ELSE Append(Without(hist.order, CHOOSE i \in found : TRUE),
                                                  CHOOSE i \in found : TRUE)]

PatchSetBytes ==
    \E bytes \in PatchBuffers :
        /\ objs' = [objs EXCEPT ![1] = fu_firmware_set_bytes(@, bytes, FALSE)]
        /\ ret' = [op |-> "set_bytes"]
        /\ UNCHANGED hist

\* prev is the result of the call before, when that was the same call
GetBytesWithPatches ==
    LET r == fu_firmware_get_bytes_with_patches(objs[1])
    IN  /\ objs' = [objs EXCEPT ![1] = r.self]
        /\ ret' = [op |-> "get_bytes_with_patches", pre |-> objs[1],
                   ok |-> r.ok, code |-> r.code, msg |-> r.msg, bytes |-> r.bytes,
                   prev |-> IF ret.op = "get_bytes_with_patches"
                            THEN Some([ok |-> ret.ok, code |-> ret.code, msg |-> ret.msg,
                                       bytes |-> ret.bytes])
                            ELSE NULL]
        /\ UNCHANGED hist

Write ==
    \E wr \in {NULL, Some(<<4>>)} :
        LET r == fu_firmware_write(objs[1], wr)
        IN  /\ FU_FIRMWARE_GET_CLASS(objs[1]).write \/ wr = NULL
            /\ objs' = [objs EXCEPT ![1] = r.self]
            /\ ret' = [op |-> "write", pre |-> objs[1],
                       ok |-> r.ok, code |-> r.code, msg |-> r.msg, bytes |-> r.bytes]
            /\ UNCHANGED hist

NextPatch == AddPatch \/ PatchSetBytes \/ GetBytesWithPatches \/ Write

SpecPatch == InitPatch /\ [][NextPatch]_vars

(* SpecRewrite: a generic object with a buffer is written, the bytes are     *)
(* parsed into a second generic object, and that object is written.         *)

\* Most patches of the object that is written first
MaxRewritePatches == 1

\* hist: the bytes of the write that were parsed into the second object,
\* and the flags of that parse; NULL before the parse
InitRewrite ==
    /\ \E bytes \in PatchBuffers :
          objs = <<fu_firmware_set_bytes(g_object_new("FuFirmware"), bytes, FALSE),
                   g_object_new("FuFirmware")>>
    /\ ret = [op |-> "new"]
    /\ hist = [first |-> NULL, flags |-> NULL]

RewriteSetId ==
    /\ hist.first = NULL
    /\ \E id \in Ids \cup {NULL} : objs' = [objs EXCEPT ![1] = fu_firmware_set_id(@, id)]
    /\ ret' = [op |-> "set"]
    /\ UNCHANGED hist

RewriteSetIdx ==
    /\ hist.first = NULL
    /\ \E idx \in 0..1 : objs' = [objs EXCEPT ![1] = fu_firmware_set_idx(@, idx)]
    /\ ret' = [op |-> "set"]
    /\ UNCHANGED hist

RewriteAddPatch ==
    /\ hist.first = NULL
    /\ \E offset \in PatchOffsets, blob \in PatchBlobs :
          LET self == fu_firmware_add_patch(objs[1], offset, blob)
          IN  /\ Len(self.patches[1]) <= MaxRewritePatches
              /\ objs' = [objs EXCEPT ![1] = self]
    /\ ret' = [op |-> "add_patch"]
    /\ UNCHANGED hist

RewriteWrite ==
    \E i \in 1..2 :
        LET r == fu_firmware_write(objs[i], NULL)
        IN  /\ objs' = [objs EXCEPT ![i] = r.self]
            /\ ret' = [op |-> "write", self |-> i, ok |-> r.ok, code |-> r.code,
                       bytes |-> r.bytes]
            /\ UNCHANGED hist

\* the bytes of the write of the first object are parsed into the second,
\* which is new
RewriteParse ==
    /\ hist.first = NULL
    /\ ret.op = "write" /\ ret.self = 1 /\ ret.ok
    /\ \E flags \in SUBSET ParseFlags :
          LET r == fu_firmware_parse_stream(objs[2], ret.bytes[1], 0, flags,
                                            [tokenize |-> TRUE, parse |-> TRUE])
          IN  /\ objs' = [objs EXCEPT ![2] = r.self]
              /\ ret' = [op |-> "parse_stream", self |-> 2, ok |-> r.ok, code |-> r.code]
              /\ hist' = [first |-> ret.bytes, flags |-> Some(flags)]

NextRewrite ==
    \/ RewriteSetId
    \/ RewriteSetIdx
    \/ RewriteAddPatch
    \/ RewriteWrite
    \/ RewriteParse

SpecRewrite == InitRewrite /\ [][NextRewrite]_vars

----------------------------------------------------------------------------
(* The size of an object *)

fu_firmware_get_size(self) ==
    IF self.size # 0 THEN self.size
    ELSE IF self.stream # NULL /\ self.streamsz # 0 THEN self.streamsz
    ELSE IF self.bytes # NULL THEN Len(self.bytes[1])
    ELSE 0

(* SpecSize: one object of the base class whose size, buffer and stream are *)
(* set in any order, that is parsed with any cache flags, and whose size is *)
(* read.                                                                    *)

\* Largest value given to fu_firmware_set_size
MaxSize == 2

\* the buffers given to fu_firmware_set_bytes: their lengths are not the
\* lengths of the streams
SizeBlobs == {<<>>, <<3, 3, 3>>, <<3, 3, 3, 3>>}

\* hist: the value of the last fu_firmware_set_size, NULL before the first
InitSize ==
    /\ objs = <<g_object_new("FuFirmware")>>
    /\ ret = [op |-> "new"]
    /\ hist = [size_set |-> NULL]

SizeSetSize ==
    \E size \in 0..MaxSize :
        /\ objs' = [objs EXCEPT ![1] = fu_firmware_set_size(@, size)]
        /\ ret' = [op |-> "set_size"]
        /\ hist' = [hist EXCEPT !.size_set = Some(size)]

SizeSetBytes ==
    \E bytes \in SizeBlobs :
        /\ objs' = [objs EXCEPT ![1] = fu_firmware_set_bytes(@, bytes, FALSE)]
        /\ ret' = [op |-> "set_bytes"]
        /\ UNCHANGED hist

SizeSetStream ==
    \E stream \in {NULL} \cup {Some(st) : st \in ShortStreams} :
        /\ objs' = [objs EXCEPT ![1] = fu_firmware_set_stream(@, stream)]
        /\ ret' = [op |-> "set_stream"]
        /\ UNCHANGED hist

SizeParseStream ==
    \E stream \in ShortStreams, offset \in 0..1,
       flags \in SUBSET {"CACHE_BLOB", "CACHE_STREAM"}, hk \in HookOutcomes(objs[1]) :
        LET r == fu_firmware_parse_stream(objs[1], stream, offset, flags, hk)
        IN  /\ objs' = [objs EXCEPT ![1] = r.self]
            /\ ret' = [op |-> "parse_stream", ok |-> r.ok]
            /\ UNCHANGED hist

GetSize ==
    /\ ret' = [op |-> "get_size", pre |-> objs[1], size |-> fu_firmware_get_size(objs[1])]
    /\ UNCHANGED <<objs, hist>>

NextSize == SizeSetSize \/ SizeSetBytes \/ SizeSetStream \/ SizeParseStream \/ GetSize

SpecSize == InitSize /\ [][NextSize]_vars

----------------------------------------------------------------------------
(* Chunks *)

\* returns the error, the chunks and the object, which no branch changes
fu_firmware_get_chunks(self) ==
    IF self.chunks # NULL
    THEN G_OK @@ [chunks |-> self.chunks, self |-> self]
    ELSE IF self.bytes # NULL
    THEN G_OK @@
         [chunks |-> Some(<<fu_chunk_set_address(
                                fu_chunk_set_idx(fu_chunk_bytes_new(self.bytes[1]), self.idx),
                                self.addr)>>),
          self |-> self]
    ELSE g_set_error("NOT_FOUND", "no bytes or chunks found in firmware") @@
         [chunks |-> NULL, self |-> self]

\* fu_bytes_new_offset(): the slice of `length' bytes at `offset', inside the bytes
fu_bytes_new_offset(bytes, offset, length) ==
    IF offset + length > Len(bytes)
    THEN g_set_error("INVALID_DATA", "cannot create bytes") @@ [bytes |-> NULL]
    ELSE G_OK @@ [bytes |-> Some(SubSeq(bytes, offset + 1, offset + length))]

\* faulty variant: the size asked for is not cut to the data that is left
fu_firmware_write_chunk_uncut(self, address, chunk_sz_max) ==
    IF address < self.addr
    THEN g_set_error("INTERNAL", "requested address less than base address") @@ [bytes |-> NULL]
    ELSE IF address - self.addr > Len(self.bytes[1])
    THEN g_set_error("NOT_FOUND", "offset larger than data size") @@ [bytes |-> NULL]
    ELSE fu_bytes_new_offset(self.bytes[1], address - self.addr, chunk_sz_max)

\* on an object with a buffer
fu_firmware_write_chunk(self, address, chunk_sz_max) ==
    IF address < self.addr
    THEN g_set_error("INTERNAL", "requested address less than base address") @@ [bytes |-> NULL]
    ELSE IF address - self.addr > Len(self.bytes[1])
    THEN g_set_error("NOT_FOUND", "offset larger than data size") @@ [bytes |-> NULL]
    ELSE IF chunk_sz_max > Len(self.bytes[1]) - (address - self.addr)
    THEN fu_bytes_new_offset(self.bytes[1], address - self.addr,
                             Len(self.bytes[1]) - (address - self.addr))
    ELSE fu_bytes_new_offset(self.bytes[1], address - self.addr, chunk_sz_max)

(* SpecChunks: one object whose address, index, buffer and stream are set   *)
(* and to which chunks are added, in any order; its chunks are read, and    *)
(* chunks of its buffer are written.                                        *)

\* Most chunks added to an object
MaxChunks == 2

\* Largest base address of an object
MaxAddr == 2

\* Largest address and largest size asked of fu_firmware_write_chunk
MaxChunkAddress == 4

\* the chunks given to fu_firmware_add_chunk
Chunks ==
    {fu_chunk_bytes_new(<<1>>),
     fu_chunk_set_address(fu_chunk_set_idx(fu_chunk_bytes_new(<<2>>), 1), 1)}

ChunkBuffers == {<<5>>, <<5, 6>>, <<5, 6, 7>>}

\* hist: the chunks given to fu_firmware_add_chunk, in the order of the calls
InitChunks ==
    /\ objs = <<g_object_new("FuFirmware")>>
    /\ ret = [op |-> "new"]
    /\ hist = [added |-> <<>>]

ChunksSetAddr ==
    \E addr \in 0..MaxAddr :
        /\ objs' = [objs EXCEPT ![1] = fu_firmware_set_addr(@, addr)]
        /\ ret' = [op |-> "set_addr"]
        /\ UNCHANGED hist

ChunksSetIdx ==
    \E idx \in 0..1 :
        /\ objs' = [objs EXCEPT ![1] = fu_firmware_set_idx(@, idx)]
        /\ ret' = [op |-> "set_idx"]
        /\ UNCHANGED hist

ChunksSetBytes ==
    \E bytes \in ChunkBuffers :
        /\ objs' = [objs EXCEPT ![1] = fu_firmware_set_bytes(@, bytes, FALSE)]
        /\ ret' = [op |-> "set_bytes"]
        /\ UNCHANGED hist

ChunksSetStream ==
    /\ objs' = [objs EXCEPT ![1] = fu_firmware_set_stream(@, Some(<<1, 2>>))]
    /\ ret' = [op |-> "set_stream"]
    /\ UNCHANGED hist

AddChunk ==
    \E chk \in Chunks :
        /\ Len(hist.added) < MaxChunks
        /\ objs' = [objs EXCEPT ![1] = fu_firmware_add_chunk(@, chk)]
        /\ ret' = [op |-> "add_chunk"]
        /\ hist' = [added |-> Append(hist.added, chk)]

GetChunks ==
    LET r == fu_firmware_get_chunks(objs[1])
    IN  /\ objs' = [objs EXCEPT ![1] = r.self]
        /\ ret' = [op |-> "get_chunks", pre |-> objs[1],
                   ok |-> r.ok, code |-> r.code, chunks |-> r.chunks]
        /\ UNCHANGED hist

WriteChunk ==
    \E address \in 0..MaxChunkAddress, chunk_sz_max \in 0..MaxChunkAddress :
        LET r == fu_firmware_write_chunk(objs[1], address, chunk_sz_max)
        IN  /\ objs[1].bytes # NULL
            /\ ret' = [op |-> "write_chunk", pre |-> objs[1], address |-> address,
                       chunk_sz_max |-> chunk_sz_max,
                       ok |-> r.ok, code |-> r.code, bytes |-> r.bytes]
            /\ UNCHANGED <<objs, hist>>

NextChunks ==
    \/ ChunksSetAddr \/ ChunksSetIdx \/ ChunksSetBytes \/ ChunksSetStream
    \/ AddChunk \/ GetChunks \/ WriteChunk

SpecChunks == InitChunks /\ [][NextChunks]_vars

----------------------------------------------------------------------------
(* The CCGx HPI device: the geometry of its flash *)

\* a guint32 as its two 16-bit halves, the value is hi * 2^16 + lo: the
\* number v, which may be below 0, modulo 2^32
guint32(v) == [hi |-> (v \div 65536) % 65536, lo |-> v % 65536]

FuCcgxFwMode == {"FU_CCGX_FW_MODE_BOOT", "FU_CCGX_FW_MODE_FW1", "FU_CCGX_FW_MODE_FW2",
                 "FU_CCGX_FW_MODE_LAST"}

\* the fields of FuCcgxHpiDevice that the flash geometry depends on, after
\* g_object_new
fu_ccgx_hpi_device_init ==
    [fw_mode |-> "FU_CCGX_FW_MODE_BOOT", flash_row_size |-> 0, flash_size |-> 0]

\* the quirk keys CcgxFlashRowSize and CcgxFlashSize; tmp is the number
\* fu_strtoull read, at most G_MAXUINT32
fu_ccgx_hpi_device_set_quirk_kv(self, key, tmp) ==
    IF key = "CcgxFlashRowSize" THEN [self EXCEPT !.flash_row_size = tmp]
    ELSE IF key = "CcgxFlashSize" THEN [self EXCEPT !.flash_size = tmp]
    ELSE self

\* the sanity check at the end of fu_ccgx_hpi_device_ensure_silicon_id
fu_ccgx_hpi_device_ensure_silicon_id(self) ==
    IF self.flash_row_size = 0 \/ self.flash_size = 0
       \/ self.flash_size % self.flash_row_size # 0
    THEN g_set_error("NOT_SUPPORTED", "invalid row size for")
    ELSE G_OK

\* addr and offset are the values written through the pointers, NULL when
\* the function failed; addr_max - 1 and addr_max - 2 are guint32
fu_ccgx_hpi_device_get_metadata_offset(self, fw_mode) ==
    IF self.flash_row_size = 0
    THEN g_set_error("NOT_SUPPORTED", "unset support row size") @@ [addr |-> NULL, offset |-> NULL]
    ELSE IF self.flash_row_size \notin {128, 256}
    THEN g_set_error("NOT_SUPPORTED", "unsupported support row size") @@
         [addr |-> NULL, offset |-> NULL]
    ELSE IF fw_mode \notin {"FU_CCGX_FW_MODE_FW1", "FU_CCGX_FW_MODE_FW2"}
    THEN g_set_error("NOT_SUPPORTED", "boot recovery not supported") @@
         [addr |-> NULL, offset |-> NULL]
    ELSE G_OK @@
         [addr |-> Some(guint32((self.flash_size \div self.flash_row_size) -
                                (IF fw_mode = "FU_CCGX_FW_MODE_FW1" THEN 1 ELSE 2))),
          offset |-> Some(IF self.flash_row_size = 128 THEN "HPI_META_DATA_OFFSET_ROW_128"
                          ELSE "HPI_META_DATA_OFFSET_ROW_256")]

(* SpecCcgxGeometry: the quirks of a device are applied, the device is set  *)
(* up, and the place of the metadata of an image is asked for.              *)

\* Largest flash size of a quirk, in units of 64 bytes
MaxFlashUnits == 8

CcgxRowSizes == {0, 64, 128, 256}

CcgxFlashSizes == {64 * k : k \in 0..MaxFlashUnits}

\* hist: whether fu_ccgx_hpi_device_setup ran, and whether its sanity check
\* passed
InitCcgxGeometry ==
    /\ objs = <<fu_ccgx_hpi_device_init>>
    /\ ret = [op |-> "new"]
    /\ hist = [setup |-> FALSE, sane |-> FALSE]

\* the quirks are applied before the device is set up
CcgxSetQuirk ==
    /\ ~hist.setup
    /\ \E key \in {"CcgxFlashRowSize", "CcgxFlashSize"},
          tmp \in CcgxRowSizes \cup CcgxFlashSizes :
          /\ key = "CcgxFlashRowSize" => tmp \in CcgxRowSizes
          /\ key = "CcgxFlashSize" => tmp \in CcgxFlashSizes
          /\ objs' = [objs EXCEPT ![1] = fu_ccgx_hpi_device_set_quirk_kv(@, key, tmp)]
          /\ ret' = [op |-> "set_quirk_kv"]
    /\ UNCHANGED hist

\* fu_ccgx_hpi_device_setup: the mode register is read and the geometry checked
CcgxSetup ==
    /\ ~hist.setup
    /\ \E fw_mode \in FuCcgxFwMode :
          LET self == [objs[1] EXCEPT !.fw_mode = fw_mode]
              err == fu_ccgx_hpi_device_ensure_silicon_id(self)
          IN  /\ objs' = [objs EXCEPT ![1] = self]
              /\ ret' = [op |-> "setup", ok |-> err.ok, code |-> err.code, msg |-> err.msg]
              /\ hist' = [setup |-> TRUE, sane |-> err.ok]

CcgxGetMetadataOffset ==
    /\ \E fw_mode \in FuCcgxFwMode :
          ret' = fu_ccgx_hpi_device_get_metadata_offset(objs[1], fw_mode) @@
                 [op |-> "get_metadata_offset", fw_mode |-> fw_mode]
    /\ UNCHANGED <<objs, hist>>

NextCcgxGeometry == CcgxSetQuirk \/ CcgxSetup \/ CcgxGetMetadataOffset

SpecCcgxGeometry == InitCcgxGeometry /\ [][NextCcgxGeometry]_vars

----------------------------------------------------------------------------
(* The CCGx HPI device: writing a firmware *)

\* a command of the log of a call: its name, the row it names if any, the
\* data written if any, and whether the function that sent it returned TRUE.
\* Each entry is one call of the function, which fu_device_retry may run
\* several times
HpiCmd(cmd, addr, data, ok) == [cmd |-> cmd, addr |-> addr, data |-> data, ok |-> ok]

\* the error of a function whose command the device did not answer with
\* success
HpiFailed(text) == g_set_error("INTERNAL", text)

\* the cast of a guint32 to the guint16 addr of the flash functions
guint16(v) == v.lo

\* the other image of a dual-image device
fu_ccgx_fw_mode_get_alternate(fw_mode) ==
    IF fw_mode = "FU_CCGX_FW_MODE_FW1" THEN "FU_CCGX_FW_MODE_FW2"
    ELSE IF fw_mode = "FU_CCGX_FW_MODE_FW2" THEN "FU_CCGX_FW_MODE_FW1"
    ELSE "FU_CCGX_FW_MODE_BOOT"

fu_ccgx_hpi_device_enter_flash_mode(ok) ==
    [err |-> IF ok THEN G_OK ELSE HpiFailed("enter flash failed"),
     log |-> <<HpiCmd("enter_flash_mode", NULL, NULL, ok)>>]

fu_ccgx_hpi_device_leave_flash_mode(ok) ==
    [err |-> IF ok THEN G_OK ELSE HpiFailed("leave flash mode failed"),
     log |-> <<HpiCmd("leave_flash_mode", NULL, NULL, ok)>>]

fu_ccgx_hpi_device_validate_fw(fw_index, ok) ==
    [err |-> IF ok THEN G_OK ELSE HpiFailed("validate failed"),
     log |-> <<HpiCmd("validate_fw", Some(fw_index), NULL, ok)>>]

fu_ccgx_hpi_device_read_flash(addr, ok) ==
    [err |-> IF ok THEN G_OK ELSE HpiFailed("read flash failed"),
     log |-> <<HpiCmd("read_flash", Some(addr), NULL, ok)>>]

fu_ccgx_hpi_device_write_flash(addr, data, ok) ==
    [err |-> IF ok THEN G_OK ELSE HpiFailed("write flash failed"),
     log |-> <<HpiCmd("write_flash", Some(addr), Some(data), ok)>>]

\* fu_device_locker_new_full: `opened' is what the open function returned
\* and sent; the locker is NULL when that failed
fu_device_locker_new_full(opened) ==
    [locker |-> IF opened.err.ok THEN Some([device_open |-> TRUE]) ELSE NULL,
     err |-> opened.err, log |-> opened.log]

\* fu_device_locker_close: the close function is called when the device is
\* open, and the device stays open when that failed; `closed' is what the
\* close function returns and sends when it is called
fu_device_locker_close(locker, closed) ==
    IF ~locker.device_open THEN [locker |-> locker, err |-> G_OK, log |-> <<>>]
    ELSE [locker |-> [locker EXCEPT !.device_open = ~closed.err.ok],
          err |-> closed.err, log |-> closed.log]

\* the end of the scope of a g_autoptr(FuDeviceLocker): the close function
\* is called when the device is still open, and its error is only logged
fu_device_locker_finalize(locker, closed) ==
    IF locker.device_open THEN closed.log ELSE <<>>

\* io.load_read: the outcome of the read; io.fits: whether the header fits
\* into the row behind the metadata offset; io.metadata_valid: the field of
\* the header that was read
fu_ccgx_hpi_device_load_metadata(self, fw_mode, io) ==
    LET m == fu_ccgx_hpi_device_get_metadata_offset(self, fw_mode)
        r == fu_ccgx_hpi_device_read_flash(guint16(m.addr[1]), io.load_read)
    IN  IF ~m.ok THEN [err |-> GError(m), log |-> <<>>, st_metadata |-> NULL]
        ELSE IF ~r.err.ok
        THEN [err |-> g_prefix_error(r.err, <<"fw metadata read error: ">>), log |-> r.log,
              st_metadata |-> NULL]
        ELSE IF ~io.fits
        THEN [err |-> g_set_error("READ", "attempted to read outside the buffer"),
              log |-> r.log, st_metadata |-> NULL]
        ELSE [err |-> G_OK, log |-> r.log,
              st_metadata |-> Some([metadata_valid |-> io.metadata_valid])]

fu_struct_ccgx_metadata_hdr_set_metadata_valid(st, value) == [st EXCEPT !.metadata_valid = value]

\* the row is read, the header is copied into it, and the row is written
fu_ccgx_hpi_device_save_metadata(self, fw_mode, st_metadata, io) ==
    LET m == fu_ccgx_hpi_device_get_metadata_offset(self, fw_mode)
        r == fu_ccgx_hpi_device_read_flash(guint16(m.addr[1]), io.save_read)
        w == fu_ccgx_hpi_device_write_flash(guint16(m.addr[1]), st_metadata, io.save_write)
    IN  IF ~m.ok THEN [err |-> GError(m), log |-> <<>>]
        ELSE IF ~r.err.ok
        THEN [err |-> g_prefix_error(r.err, <<"fw metadata read existing error: ">>),
              log |-> r.log]
        ELSE IF ~io.fits
        THEN [err |-> g_set_error("WRITE", "attempted to write outside the buffer"),
              log |-> r.log]
        ELSE IF ~w.err.ok
        THEN [err |-> g_prefix_error(w.err, <<"fw metadata write error: ">>),
              log |-> r.log \o w.log]
        ELSE [err |-> G_OK, log |-> r.log \o w.log]

RECURSIVE fu_ccgx_hpi_device_write_records_all(_, _, _)
\* faulty variant: the loop goes on after a record that was not written
fu_ccgx_hpi_device_write_records_all(records, i, write_fail) ==
    IF i > Len(records) THEN [err |-> G_OK, log |-> <<>>]
    ELSE LET w == fu_ccgx_hpi_device_write_flash(records[i], [rcd |-> i], i # write_fail)
             rest == fu_ccgx_hpi_device_write_records_all(records, i + 1, write_fail)
         IN  [err |-> rest.err, log |-> w.log \o rest.log]

RECURSIVE fu_ccgx_hpi_device_write_records(_, _, _)
\* the loop of fu_ccgx_hpi_device_write_firmware over the records from the
\* i-th on; records[i] is the row number of the i-th record, [rcd |-> i]
\* stands for its data, and the write of the record of index write_fail fails
fu_ccgx_hpi_device_write_records(records, i, write_fail) ==
    IF i > Len(records) THEN [err |-> G_OK, log |-> <<>>]
    ELSE LET w == fu_ccgx_hpi_device_write_flash(records[i], [rcd |-> i], i # write_fail)
             rest == fu_ccgx_hpi_device_write_records(records, i + 1, write_fail)
         IN  IF ~w.err.ok
             THEN [err |-> g_prefix_error(w.err, <<"fw write error: ">>), log |-> w.log]
             ELSE [err |-> rest.err, log |-> w.log \o rest.log]

\* the error that is returned and the commands that were sent, in their
\* order; io are the outcomes of the functions that talk to the device, in
\* io.leave those of the first and of the second call of
\* fu_ccgx_hpi_device_leave_flash_mode
fu_ccgx_hpi_device_write_firmware(self, records, io) ==
    LET fw_mode_alt == fu_ccgx_fw_mode_get_alternate(self.fw_mode)
        new == fu_device_locker_new_full(fu_ccgx_hpi_device_enter_flash_mode(io.enter))
        locker == new.locker[1]
        load == fu_ccgx_hpi_device_load_metadata(self, fw_mode_alt, io)
        save == fu_ccgx_hpi_device_save_metadata(
                    self, fw_mode_alt,
                    fu_struct_ccgx_metadata_hdr_set_metadata_valid(load.st_metadata[1], 0), io)
        recs == fu_ccgx_hpi_device_write_records(records, 1, io.write_fail)
        val == fu_ccgx_hpi_device_validate_fw(fw_mode_alt, io.validate)
        close == fu_device_locker_close(locker, fu_ccgx_hpi_device_leave_flash_mode(io.leave[1]))
        \* a return with the locker as it is then; n counts the calls of
        \* fu_ccgx_hpi_device_leave_flash_mode
        return(err, log, lk, n) ==
            [err |-> err,
             log |-> log \o fu_device_locker_finalize(
                                lk, fu_ccgx_hpi_device_leave_flash_mode(io.leave[n]))]
    IN  IF new.locker = NULL THEN [err |-> new.err, log |-> new.log]
        ELSE IF ~load.err.ok THEN return(load.err, new.log \o load.log, locker, 1)
        ELSE IF ~save.err.ok THEN return(save.err, new.log \o load.log \o save.log, locker, 1)
        ELSE IF ~recs.err.ok
        THEN return(recs.err, new.log \o load.log \o save.log \o recs.log, locker, 1)
        ELSE IF ~val.err.ok
        THEN return(g_prefix_error(val.err, <<"fw validate error: ">>),
                    new.log \o load.log \o save.log \o recs.log \o val.log, locker, 1)
        ELSE return(close.err,
                    new.log \o load.log \o save.log \o recs.log \o val.log \o close.log,
                    close.locker, 2)

(* SpecCcgxWrite: the quirks of a device are applied, the device is set up, *)
(* and a firmware is written to it.                                         *)

\* Most records of a firmware
MaxRecords == 2

\* the row numbers of the records of a firmware
CcgxRecords == SeqsUpTo({1, 2}, MaxRecords)

\* the outcomes of the functions that talk to the device during one call
CcgxOutcomes(records) ==
    [enter : BOOLEAN, load_read : BOOLEAN, fits : BOOLEAN, metadata_valid : {0, 1},
     save_read : BOOLEAN, save_write : BOOLEAN, write_fail : 0..Len(records),
     validate : BOOLEAN, leave : [1..2 -> BOOLEAN]]

\* a firmware is written to a device that was set up
CcgxWriteFirmware ==
    /\ hist.sane
    /\ ret.op # "write_firmware"
    /\ \E records \in CcgxRecords :
          \E io \in CcgxOutcomes(records) :
              LET r == fu_ccgx_hpi_device_write_firmware(objs[1], records, io)
              IN  ret' = [op |-> "write_firmware", records |-> records,
                          ok |-> r.err.ok, code |-> r.err.code, msg |-> r.err.msg,
                          log |-> r.log]
    /\ UNCHANGED <<objs, hist>>

NextCcgxWrite == CcgxSetQuirk \/ CcgxSetup \/ CcgxWriteFirmware

SpecCcgxWrite == InitCcgxGeometry /\ [][NextCcgxWrite]_vars

----------------------------------------------------------------------------
(* Properties of the parse pipeline *)

IsParse == ret.op = "parse_stream"

SetMin(S) == CHOOSE x \in S : \A y \in S : x <= y

\* the call got as far as the validation: the object was fresh and the stream
\* is longer than the offset
ReachedValidate ==
    IsParse /\ "DONE_PARSE" \notin ret.pre.flags /\ Len(ret.stream) > ret.arg_offset

HasValidator == FU_FIRMWARE_GET_CLASS(ret.pre).validate

SearchEnabled == "ALWAYS_SEARCH" \in ret.pre.flags \/ "NO_SEARCH" \notin ret.flags

\* the offsets from the caller's offset on at which the validator accepts
Accepting ==
    {o \in ret.arg_offset..(Len(ret.stream) - 1) : klass_validate(ret.pre, ret.stream, o).ok}

\* the offsets a search tries: from the caller's on, up to the first accepted
SearchedOffsets ==
    LET last == IF Accepting # {} THEN SetMin(Accepting) ELSE Len(ret.stream) - 1
    IN  [k \in 1..(last - ret.arg_offset + 1) |-> ret.arg_offset + k - 1]

\* the offset the payload starts at: the first accepted one when the call searches
ResolvedOffset ==
    IF HasValidator /\ SearchEnabled /\ Len(ret.stream) <= SearchMagicBufszMax /\ Accepting # {}
    THEN SetMin(Accepting) ELSE ret.arg_offset

StreamFrom(stream, offset) == SubSeq(stream, offset + 1, Len(stream))

\* C1: once a parse call has returned success on an object, every later parse
\* call on it, whatever the stream, offset and flags, fails with NOT_SUPPORTED
\* "firmware object cannot be reused" and calls no validate, tokenize or parse hook
C1_NoReuseAfterSuccess ==
    (IsParse /\ ret.hist.parsed_ok) =>
        /\ ~ret.ok
        /\ ret.code = "NOT_SUPPORTED"
        /\ ret.msg = <<"firmware object cannot be reused">>
        /\ ret.validate_calls = <<>>
        /\ ret.hooks = <<>>

C1_Witness ==
    IsParse /\ ret.hist.parsed_ok /\ ret.code = "NOT_SUPPORTED" /\ ret.stream # <<>>

\* C2: DONE_PARSE is set whenever the tokenize or the parse hook was invoked,
\* the parse hook never runs after a failed tokenize hook (tokenize comes
\* first), and after a parse that failed inside a hook the next parse call
\* fails with NOT_SUPPORTED without running a hook again: no hook runs twice
C2_DoneBeforeHooks ==
    /\ (IsParse /\ ret.hooks # <<>>) => "DONE_PARSE" \in objs[1].flags
    /\ IsParse =>
          ret.hooks = (IF ret.exit \in {"tokenize", "parse", "alignment", "success"}
                       THEN (IF FU_FIRMWARE_GET_CLASS(ret.pre).tokenize
                             THEN <<"tokenize">> ELSE <<>>) \o
                            (IF FU_FIRMWARE_GET_CLASS(ret.pre).parse /\ ret.exit # "tokenize"
                             THEN <<"parse">> ELSE <<>>)
                       ELSE <<>>)
    /\ (IsParse /\ ret.exit = "tokenize") => ~ret.ok
    /\ (IsParse /\ ret.hist.hook_failed) =>
          ~ret.ok /\ ret.code = "NOT_SUPPORTED" /\ ret.hooks = <<>>
    /\ hist[1].tokenize_runs <= 1
    /\ hist[1].parse_runs <= 1

C2_Witness ==
    IsParse /\ ret.hist.hook_failed /\ ret.code = "NOT_SUPPORTED" /\ hist[1].tokenize_runs = 1

C4_SearchFindsFirstMagic ==
    (ReachedValidate /\ HasValidator /\ SearchEnabled
        /\ Len(ret.stream) <= SearchMagicBufszMax) =>
        IF Accepting # {}
        THEN /\ ret.exit # "validate"
             /\ ret.offset = SetMin(Accepting)
             /\ objs[1].offset = SetMin(Accepting)
             /\ ret.validate_calls = SearchedOffsets
             /\ ret.partial_stream # NULL =>
                    ret.partial_stream = Some(StreamFrom(ret.stream, SetMin(Accepting)))
             /\ ret.exit \in {"tokenize", "parse", "alignment", "success"} =>
                    ret.partial_stream # NULL
        ELSE /\ ~ret.ok
             /\ ret.code = "INVALID_FILE"
             /\ ret.msg = <<"did not find magic">>
             /\ ret.hooks = <<>>

C4_Witness ==
    /\ ReachedValidate /\ HasValidator /\ SearchEnabled
    /\ Len(ret.stream) <= SearchMagicBufszMax
    /\ Accepting # {} /\ SetMin(Accepting) > ret.arg_offset
    /\ ret.ok /\ ret.partial_stream = Some(StreamFrom(ret.stream, SetMin(Accepting)))

\* C5: with a validator, when the stream is above the search ceiling, or
\* NO_SEARCH is passed and the object lacks ALWAYS_SEARCH, the validator is
\* called exactly once, at the caller's offset, and its rejection fails the
\* parse with the validator's error; with ALWAYS_SEARCH on the object a
\* NO_SEARCH flag changes nothing: the offsets are searched all the same
C5_ValidateOnceWithoutSearch ==
    /\ (ReachedValidate /\ HasValidator
          /\ (Len(ret.stream) > SearchMagicBufszMax \/ ~SearchEnabled)) =>
          LET v == klass_validate(ret.pre, ret.stream, ret.arg_offset)
          IN  /\ ret.validate_calls = <<ret.arg_offset>>
              /\ ret.offset = ret.arg_offset
              /\ ~v.ok => /\ ~ret.ok
                          /\ ret.exit = "validate"
                          /\ ret.code = v.code
                          /\ ret.msg[Len(ret.msg)] = v.msg[1]
                          /\ ret.hooks = <<>>
              /\ v.ok => ret.exit # "validate"
    /\ (ReachedValidate /\ HasValidator /\ "ALWAYS_SEARCH" \in ret.pre.flags
          /\ "NO_SEARCH" \in ret.flags /\ Len(ret.stream) <= SearchMagicBufszMax) =>
          ret.validate_calls = SearchedOffsets

C5_Witness ==
    /\ ReachedValidate /\ HasValidator /\ "NO_SEARCH" \notin ret.flags
    /\ Len(ret.stream) > SearchMagicBufszMax
    /\ Accepting # {} /\ ret.arg_offset \notin Accepting
    /\ ~ret.ok /\ ret.validate_calls = <<ret.arg_offset>>

\* C6: a parse that got past the validation with size_max nonzero and a
\* remaining size above size_max fails with INVALID_FILE, with DONE_PARSE
\* not set and no tokenize or parse hook run; with size_max 0 no parse fails
\* for its size
C6_SizeMaxBeforeDone ==
    (ReachedValidate /\ ret.exit # "validate") =>
        /\ (ret.pre.size_max > 0 /\ Len(ret.stream) - ResolvedOffset > ret.pre.size_max) =>
              /\ ~ret.ok
              /\ ret.code = "INVALID_FILE"
              /\ ret.msg = <<"firmware is too large">>
              /\ "DONE_PARSE" \notin objs[1].flags
              /\ ret.hooks = <<>>
        /\ ret.pre.size_max = 0 => ret.msg # <<"firmware is too large">>

C6_Witness ==
    /\ ReachedValidate /\ ret.exit = "size_max"
    /\ ret.pre.size_max > 0 /\ Len(ret.stream) - ResolvedOffset > ret.pre.size_max
    /\ ResolvedOffset > 0

\* C7: for a format without a parse hook and a nonzero alignment exponent a, a
\* parse succeeds only if the remaining size (stream size - resolved offset)
\* is a multiple of 2^a, and a parse that gets to the alignment check with
\* another remaining size fails with INVALID_FILE, at every offset
C7_AlignmentOfRemainingSize ==
    (IsParse /\ ~FU_FIRMWARE_GET_CLASS(ret.pre).parse /\ ret.pre.alignment # 0) =>
        LET left == Len(ret.stream) - ResolvedOffset
        IN  /\ ret.ok => left % Pow2(ret.pre.alignment) = 0
            /\ (ret.exit \in {"alignment", "success"} /\ left % Pow2(ret.pre.alignment) # 0) =>
                  ~ret.ok /\ ret.code = "INVALID_FILE"

----------------------------------------------------------------------------
(* Properties of the probe chain *)

IsProbe == ret.op = "new_from_gtypes"

\* what the full parse pipeline does with candidate i of the call, on a fresh object
CandidateParse(i) ==
    fu_firmware_parse_stream(g_object_new(ret.gtypes[i]), ret.stream, ret.arg_offset,
                             ret.flags, ret.hks[i])

Parsing == {i \in DOMAIN ret.gtypes : CandidateParse(i).ok}

Contains(msg, part) ==
    \E k \in 0..(Len(msg) - Len(part)) : SubSeq(msg, k + 1, k + Len(part)) = part

\* C8: when some candidate parses, the call returns the object of the first
\* candidate in list order whose parse succeeds, as that parse left it; the
\* candidates before it were tried in order and those after it were not
C8_FirstParsingCandidateWins ==
    (IsProbe /\ Parsing # {}) =>
        LET first == SetMin(Parsing)
        IN  /\ ret.ok
            /\ ret.firmware = 1
            /\ objs[1].gtype = ret.gtypes[first]
            /\ objs[1] = CandidateParse(first).self
            /\ ret.tried = SubSeq(ret.gtypes, 1, first)

C8_Witness ==
    /\ IsProbe /\ Len(ret.gtypes) = 3 /\ Parsing = {2, 3}
    /\ ret.gtypes[2] # ret.gtypes[3] /\ ret.gtypes[1] # ret.gtypes[2]
    /\ ret.ok /\ objs[1].gtype = ret.gtypes[2]

\* C9: when every candidate fails, no object is returned, every candidate was
\* tried and the error's message contains the message of every candidate's
\* failure; with an empty list the call fails with NOTHING_TO_DO and tries none
C9_AllFailuresReported ==
    /\ (IsProbe /\ ret.gtypes # <<>> /\ Parsing = {}) =>
          /\ ~ret.ok
          /\ ret.firmware = 0 /\ objs = <<>>
          /\ ret.tried = ret.gtypes
          /\ \A i \in DOMAIN ret.gtypes : Contains(ret.msg, CandidateParse(i).msg)
          /\ Len(ret.msg) >= Len(ret.gtypes)
    /\ (IsProbe /\ ret.gtypes = <<>>) =>
          /\ ~ret.ok /\ ret.code = "NOTHING_TO_DO"
          /\ ret.firmware = 0 /\ objs = <<>>
          /\ ret.tried = <<>>

C9_Witness ==
    /\ IsProbe /\ Len(ret.gtypes) = 3 /\ Parsing = {}
    /\ Cardinality({CandidateParse(i).msg : i \in DOMAIN ret.gtypes}) = 3
    /\ ~ret.ok

----------------------------------------------------------------------------
(* Properties of the tree of images *)

\* C10: in a chain built top-down from a root of depth 0, an addition to an
\* object of depth below 50 succeeds and the k-th added object reports depth k;
\* the addition to the object of depth 50 (the 51st) fails and attaches
\* nothing, and no object ever reports a depth above 50
C10_ChainDepthLimit ==
    /\ \A i \in DOMAIN objs : objs[i].depth <= FU_FIRMWARE_IMAGE_DEPTH_MAX
    /\ \A i \in DOMAIN objs : objs[i].depth = i - 1
    /\ (ret.op = "add_image_full" /\ objs[ret.self].depth < FU_FIRMWARE_IMAGE_DEPTH_MAX) =>
          ret.ok /\ objs[ret.img].parent = Some(ret.self)
    /\ (ret.op = "add_image_full" /\ objs[ret.self].depth = FU_FIRMWARE_IMAGE_DEPTH_MAX) =>
          ~ret.ok /\ objs[ret.self].images = <<>>

----------------------------------------------------------------------------
(* Properties of the tree under additions in any order *)

\* C11: in every state, every child c in the images of an object p has
\* depth(c) = depth(p) + 1.  Violated: the depth of an object is set when it is
\* added and never again, so an object's images keep their depth when the
\* object itself is added to a parent.
C11_ChildDepthIsParentDepthPlusOne ==
    \A p \in DOMAIN objs : \A c \in Range(objs[p].images) :
        objs[c].depth = objs[p].depth + 1

\* C16: in every state, every object c in the images of an object p has p as
\* its parent, so no object is an image of two objects at once.  Violated: an
\* object added to a second parent stays in the images of the first.
C16_ImagesFormStrictTree ==
    \A p \in DOMAIN objs : \A c \in Range(objs[p].images) :
        fu_firmware_get_parent(objs[c]) = Some(p)

----------------------------------------------------------------------------
(* Properties of the images of one parent *)

IsAddImage == ret.op = "add_image_full"

\* the images of object p in the heap whose id is / is not the id of img
ImagesWithId(heap, p, img) == SelectSeq(heap[p].images, LAMBDA c : heap[c].id = heap[img].id)

ImagesWithOtherId(heap, p, img) == SelectSeq(heap[p].images, LAMBDA c : heap[c].id # heap[img].id)

\* the sequence without its k-th element
WithoutIndex(seq, k) == SubSeq(seq, 1, k - 1) \o SubSeq(seq, k + 1, Len(seq))

\* C12, as stated: after a successful add_image_full on a parent with the
\* dedupe-by-id flag, the parent holds exactly one image with the id of the
\* added image, the added one, and the images with other ids are kept in their
\* order.  Violated when the parent has the dedupe-by-idx flag as well.
C12_DedupeIdKeepsOtherIds ==
    (IsAddImage /\ ret.ok /\ "DEDUPE_ID" \in ret.pre[1].flags) =>
        /\ ImagesWithId(objs, 1, ret.img) = <<ret.img>>
        /\ ImagesWithOtherId(objs, 1, ret.img) = ImagesWithOtherId(ret.pre, 1, ret.img)

\* C12, amended: after a successful add_image_full on a parent that had the
\* dedupe-by-id flag from the start, the parent holds exactly one image with
\* the id of the added image, the added one, at the end of the list; the images
\* with other ids are kept in their order, all of them when the parent has no
\* dedupe-by-idx flag, and else all but at most one that has the idx of the
\* added image.
C12_DedupeIdReplacesSameId ==
    (IsAddImage /\ ret.ok /\ "DEDUPE_ID" \in ret.pre[1].flags) =>
        LET before == ImagesWithOtherId(ret.pre, 1, ret.img)
            after  == ImagesWithOtherId(objs, 1, ret.img)
        IN  /\ ImagesWithId(objs, 1, ret.img) = <<ret.img>>
            /\ objs[1].images[Len(objs[1].images)] = ret.img
            /\ "DEDUPE_IDX" \notin ret.pre[1].flags => after = before
            /\ "DEDUPE_IDX" \in ret.pre[1].flags =>
                   \/ after = before
                   \/ \E k \in DOMAIN before :
                          /\ after = WithoutIndex(before, k)
                          /\ ret.pre[before[k]].idx = ret.pre[ret.img].idx

\* a second image with id x replaced the first, and an image with another id
\* that was added before both is still the first of the list
C12_Witness ==
    /\ IsAddImage /\ ret.ok /\ "DEDUPE_ID" \in ret.pre[1].flags
    /\ Len(ret.pre[1].images) = 2
    /\ \E old \in Range(ret.pre[1].images) :
           /\ old # ret.img
           /\ ret.pre[old].id = ret.pre[ret.img].id
           /\ old \notin Range(objs[1].images)
    /\ Len(objs[1].images) = 2
    /\ objs[objs[1].images[1]].id # objs[ret.img].id
    /\ objs[1].images[1] = ret.pre[1].images[1]

\* the add_image_full of ret removed no image of the parent by dedupe
DedupeRemovesNone ==
    \A c \in Range(ret.pre[1].images) :
        /\ "DEDUPE_ID" \in ret.pre[1].flags => ret.pre[c].id # ret.pre[ret.img].id
        /\ "DEDUPE_IDX" \in ret.pre[1].flags => ret.pre[c].idx # ret.pre[ret.img].idx

\* C14: in every state, a nonzero images_max bounds the number of images, and
\* an add_image_full on an object that holds images_max images after the
\* dedupe fails.  Violated: fu_firmware_set_images_max accepts a value below
\* the number of images the object holds.
C14_ImagesMaxBoundsImages ==
    /\ objs[1].images_max > 0 => Len(objs[1].images) <= objs[1].images_max
    /\ (IsAddImage /\ ret.pre[1].images_max > 0
          /\ Len(ret.pre[1].images) >= ret.pre[1].images_max
          /\ DedupeRemovesNone) => ~ret.ok

----------------------------------------------------------------------------
(* Properties of fu_firmware_build *)

IsBuild == ret.op = "build"

RECURSIVE DirectAdd(_, _, _, _)
\* the direct path: for every firmware element from the i-th on, an image that
\* carries the element's id and idx already is added with fu_firmware_add_image_full
DirectAdd(heap, self, xb_images, i) ==
    IF i > Len(xb_images) THEN heap
    ELSE LET img == Len(heap) + 1
             new == fu_firmware_build_attributes(g_object_new("FuFirmware"), xb_images[i])
         IN  DirectAdd(fu_firmware_add_image_full(Append(heap, new), self, img).heap,
                       self, xb_images, i + 1)

\* the ids of the images of an object, in their order
ImageIds(heap, self) == [k \in DOMAIN heap[self].images |-> heap[heap[self].images[k]].id]

\* C13: a successful fu_firmware_build of a parent with the dedupe-by-id flag
\* leaves the same list of image ids as the direct additions of images that
\* carry the ids of the nested firmware elements; for two elements with the
\* same id that is one image with that id.  Violated: the image is added
\* before it is built, while its id is still unset, so the dedupe compares
\* the unset id.
C13_BuildDedupesLikeAddImage ==
    (IsBuild /\ ret.ok /\ "DEDUPE_ID" \in ret.pre[1].flags) =>
        /\ ImageIds(objs, 1) = ImageIds(DirectAdd(ret.pre, 1, ret.n.firmware, 1), 1)
        /\ \A id \in Ids :
               (Len(ret.n.firmware) = 2 /\ \A k \in 1..2 : ret.n.firmware[k].id = id)
                   => ImageIds(objs, 1) = <<id>>

----------------------------------------------------------------------------
(* Properties of the payload *)

\* C15: in every state an object holds at most one payload representation:
\* priv->bytes and priv->stream are never both set.  Violated:
\* fu_firmware_set_stream and the CACHE_STREAM branch of the parse set the
\* stream and leave the buffer.
C15_BytesOrStreamNotBoth ==
    \A i \in DOMAIN objs : ~(objs[i].bytes # NULL /\ objs[i].stream # NULL)

----------------------------------------------------------------------------
(* Properties of the parent back-reference *)

\* C17: the parent back-reference never dangles.  An object that is alive has
\* no parent or a parent that is alive and has the object's back-reference
\* registered, so after its parent is finalized fu_firmware_get_parent returns
\* NULL; every registration on an object that is alive is that of an object
\* that is alive and points to it, so the registration of a finalized child is
\* gone; and no finalization has written into a finalized object.
C17_ParentNeverDangles ==
    /\ \A c \in Alive(objs) :
           fu_firmware_get_parent(objs[c]) # NULL =>
               /\ fu_firmware_get_parent(objs[c])[1] \in Alive(objs)
               /\ c \in objs[fu_firmware_get_parent(objs[c])[1]].weak_pointers
    /\ \A p \in Alive(objs) : \A c \in objs[p].weak_pointers :
           c \in Alive(objs) /\ fu_firmware_get_parent(objs[c]) = Some(p)
    /\ \A i \in DOMAIN objs : ~objs[i].written_after_free
    /\ ret.op = "unref" => \A c \in ret.orphans : fu_firmware_get_parent(objs[c]) = NULL

\* a parent was finalized while an image of it is still held by the caller,
\* after another object had been finalized before its parent
C17_Witness ==
    /\ ret.op = "unref"
    /\ ret.self \notin Alive(objs)
    /\ ret.orphans # {}
    /\ ret.orphans \subseteq hist.held
    /\ hist.child_first

----------------------------------------------------------------------------
(* Properties of the patches *)

IsGetBytesWithPatches == ret.op = "get_bytes_with_patches"

\* the result of the call of ret
Returned == [ok |-> ret.ok, code |-> ret.code, msg |-> ret.msg, bytes |-> ret.bytes]

\* the call of ret applied patches to a buffer
Patched == ret.pre.bytes # NULL /\ ret.pre.patches # NULL

\* C18: fu_firmware_get_bytes_with_patches leaves the object as it was, its
\* buffer, stream and patches included, whether it fails or not, and a second
\* call that follows the first directly returns what the first returned.
C18_GetBytesWithPatchesReadOnly ==
    IsGetBytesWithPatches =>
        /\ objs[1] = ret.pre
        /\ ret.prev # NULL => Returned = ret.prev[1]

\* a second call in a row on a buffer that a patch changes in the result
C18_Witness ==
    /\ IsGetBytesWithPatches /\ ret.prev # NULL /\ Patched
    /\ ret.ok /\ ret.bytes # ret.pre.bytes
    /\ objs[1].bytes = ret.pre.bytes

\* the patches of an object, none when the list was never created
Patches(self) == g_ptr_array_or_empty(self.patches)

\* no two patches have the same offset and the same length
NoTwoPatchesAlike(self) ==
    \A i, j \in DOMAIN Patches(self) :
        (Patches(self)[i].offset = Patches(self)[j].offset
            /\ Len(Patches(self)[i].blob) = Len(Patches(self)[j].blob)) => i = j

\* patch p writes the k-th byte of the buffer
Covers(p, k) == p.offset.hi = 0 /\ p.offset.lo < k /\ k <= p.offset.lo + Len(p.blob)

\* the index of the patch of the last fu_firmware_add_patch
LastPatchIndex ==
    CHOOSE i \in DOMAIN Patches(ret.pre) :
        /\ Patches(ret.pre)[i].offset = hist.last_patch[1].offset
        /\ Len(Patches(ret.pre)[i].blob) = Len(hist.last_patch[1].blob)

\* C19, as stated: no two patches of an object have the same offset and the
\* same length, and after a patch was added the patched bytes show the bytes
\* of that patch in its range.  Violated: the patch that replaces one keeps
\* the place of the replaced one in the list, and a patch of another length
\* that was added in between is applied after it.
C19_LatestPatchShown ==
    /\ NoTwoPatchesAlike(objs[1])
    /\ (IsGetBytesWithPatches /\ Patched /\ ret.ok /\ hist.last_patch # NULL) =>
           \A k \in DOMAIN ret.bytes[1] :
               Covers(hist.last_patch[1], k) =>
                   ret.bytes[1][k] = hist.last_patch[1].blob[k - hist.last_patch[1].offset.lo]

\* C19, amended: no two patches of an object have the same offset and the
\* same length; a patch added with the offset and length of an existing one
\* replaces the bytes of that one, at its place in the list; and the patched
\* bytes show the bytes of the patch added last at every byte of its range
\* that no patch standing later in the list writes.
C19_LatestPatchReplaces ==
    /\ NoTwoPatchesAlike(objs[1])
    /\ (ret.op = "add_patch" /\ hist.replaced) =>
           /\ Len(Patches(objs[1])) = Len(Patches(ret.pre))
           /\ \A i \in DOMAIN Patches(ret.pre) :
                  /\ Patches(objs[1])[i].offset = Patches(ret.pre)[i].offset
                  /\ Len(Patches(objs[1])[i].blob) = Len(Patches(ret.pre)[i].blob)
                  /\ Patches(objs[1])[i].blob =
                         IF Patches(ret.pre)[i].offset = ret.offset
                            /\ Len(Patches(ret.pre)[i].blob) = Len(ret.blob)
                         THEN ret.blob ELSE Patches(ret.pre)[i].blob
    /\ (IsGetBytesWithPatches /\ Patched /\ ret.ok /\ hist.last_patch # NULL) =>
           \A k \in DOMAIN ret.bytes[1] :
               (/\ Covers(hist.last_patch[1], k)
                /\ \A j \in DOMAIN Patches(ret.pre) :
                       j > LastPatchIndex => ~Covers(Patches(ret.pre)[j], k)) =>
                   ret.bytes[1][k] = hist.last_patch[1].blob[k - hist.last_patch[1].offset.lo]

\* the patch added last replaced one of its offset and length, another patch
\* is in the list, and the bytes of the last patch are in the result
C19_Witness ==
    /\ IsGetBytesWithPatches /\ Patched /\ ret.ok
    /\ hist.last_patch # NULL /\ hist.replaced
    /\ Len(Patches(ret.pre)) = 2
    /\ \E k \in DOMAIN ret.bytes[1] :
           /\ Covers(hist.last_patch[1], k)
           /\ ret.bytes[1][k] = hist.last_patch[1].blob[k - hist.last_patch[1].offset.lo]
           /\ ret.bytes[1][k] # ret.pre.bytes[1][k]

\* the patches of the call of ret that do not fit into the buffer
PatchesOutside ==
    {i \in DOMAIN Patches(ret.pre) :
        \/ Patches(ret.pre)[i].offset.hi > 0
        \/ Patches(ret.pre)[i].offset.lo + Len(Patches(ret.pre)[i].blob) > Len(ret.pre.bytes[1])}

\* "%x" of a gsize: the high half, when not zero, and the eight digits of the low half
FormatHexSize(v) ==
    IF v.hi = 0 THEN FormatHex(v.lo) ELSE FormatHex(v.hi) \o "0000000" \o FormatHex(v.lo)

\* C20: on an object with a buffer and a patch that ends behind the buffer,
\* fu_firmware_get_bytes_with_patches, and fu_firmware_write of a class with no
\* write hook, fail with an error that names the offset of a patch that does
\* not fit and return no bytes; fu_firmware_add_patch takes any offset.
\* Violated: the message is formatted from the offset cast to guint, which is
\* not the offset when that is 2^32 or more.
C20_PatchOutsideBufferNamed ==
    /\ ((IsGetBytesWithPatches \/ (ret.op = "write" /\ ~FU_FIRMWARE_GET_CLASS(ret.pre).write))
          /\ Patched /\ PatchesOutside # {}) =>
           /\ ~ret.ok /\ ret.bytes = NULL
           /\ \E i \in PatchesOutside :
                  ret.msg[1] = "failed to apply patch @0x" \o
                               FormatHexSize(Patches(ret.pre)[i].offset) \o ": "
    /\ ret.op = "add_patch" =>
           \E i \in DOMAIN Patches(objs[1]) :
               Patches(objs[1])[i] = FuFirmwarePatch(ret.offset, ret.blob)

\* the places of the patches of the call of ret that write the k-th byte
Covering(k) == {i \in DOMAIN Patches(ret.pre) : Covers(Patches(ret.pre)[i], k)}

\* the byte that the patch at place i writes as the k-th byte
PatchByte(i, k) == Patches(ret.pre)[i].blob[k - Patches(ret.pre)[i].offset.lo]

\* of the patches that write the k-th byte, the place of the one that the
\* latest call of fu_firmware_add_patch wrote
AddedLast(k) ==
    hist.order[CHOOSE j \in DOMAIN hist.order :
                   /\ hist.order[j] \in Covering(k)
                   /\ \A l \in DOMAIN hist.order : hist.order[l] \in Covering(k) => l <= j]

\* of the patches that write the k-th byte, the one standing last in the list
LastInList(k) == CHOOSE i \in Covering(k) : \A j \in Covering(k) : j <= i

\* the call of ret read a buffer whose patches all fit into it
PatchedInBounds == IsGetBytesWithPatches /\ Patched /\ PatchesOutside = {}

\* C21, as stated: on a buffer whose patches all fit, the result has the
\* length of the buffer, a byte that no patch writes is the byte of the
\* buffer, and a byte that patches write is the byte of the one of them that
\* was added last.  Violated: a patch added with the offset and length of an
\* existing one takes the place of that one, before patches added earlier.
C21_PatchedBytesOfLastAdded ==
    PatchedInBounds =>
        /\ ret.ok /\ Len(ret.bytes[1]) = Len(ret.pre.bytes[1])
        /\ \A k \in DOMAIN ret.bytes[1] :
               ret.bytes[1][k] = IF Covering(k) = {} THEN ret.pre.bytes[1][k]
                                 ELSE PatchByte(AddedLast(k), k)

\* C21, amended: on a buffer whose patches all fit, the result has the length
\* of the buffer, a byte that no patch writes is the byte of the buffer, and
\* a byte that patches write is the byte of the one of them that stands last
\* in the list of patches, which is the one added last when no patch replaced
\* an existing one.
C21_PatchedBytesOfLastInList ==
    PatchedInBounds =>
        /\ ret.ok /\ Len(ret.bytes[1]) = Len(ret.pre.bytes[1])
        /\ \A k \in DOMAIN ret.bytes[1] :
               ret.bytes[1][k] = IF Covering(k) = {} THEN ret.pre.bytes[1][k]
                                 ELSE PatchByte(LastInList(k), k)

\* two patches write one byte with different values, the result shows the
\* later one, and another byte of the buffer is written by no patch
C21_Witness ==
    /\ PatchedInBounds /\ ret.ok
    /\ \E k \in DOMAIN ret.bytes[1] :
           /\ Cardinality(Covering(k)) = 2
           /\ \E i \in Covering(k) : PatchByte(i, k) # ret.bytes[1][k]
    /\ \E k \in DOMAIN ret.bytes[1] : Covering(k) = {}

----------------------------------------------------------------------------
(* Properties of the size *)

IsGetSize == ret.op = "get_size"

\* the length of the payload of the call of ret: of the stream when one is
\* set and `counts' holds of its length, else of the buffer, else 0
PayloadSize(counts) ==
    IF ret.pre.stream # NULL /\ counts[Len(ret.pre.stream[1])] THEN Len(ret.pre.stream[1])
    ELSE IF ret.pre.bytes # NULL THEN Len(ret.pre.bytes[1])
    ELSE 0

\* C22: fu_firmware_get_size returns the size of the last
\* fu_firmware_set_size when there was one, whatever the payload; and else
\* the length of the stream when a stream is set, else the length of the
\* buffer when a buffer is set, else 0; a size of 0 and an empty stream are
\* taken as not set.  Violated: a parse without the flag CACHE_STREAM stores
\* the size of its stream and leaves the stream that was set before.
C22_GetSizeOfSetSize ==
    IsGetSize =>
        ret.size = IF hist.size_set # NULL /\ hist.size_set[1] # 0 THEN hist.size_set[1]
                   ELSE PayloadSize([n \in 0..MaxStreamLen |-> n # 0])

----------------------------------------------------------------------------
(* Properties of the chunks *)

IsGetChunks == ret.op = "get_chunks"

\* C23: fu_firmware_get_chunks returns the chunks given to
\* fu_firmware_add_chunk, in the order of the calls, when there was a call;
\* else, on an object with a buffer, one chunk of the whole buffer with the
\* address and the index of the object; else it fails with NOT_FOUND, on an
\* object with a stream too; and it leaves the object as it was.
C23_GetChunksAddedOrBuffer ==
    IsGetChunks =>
        /\ objs[1] = ret.pre
        /\ IF hist.added # <<>>
           THEN ret.ok /\ ret.chunks = Some(hist.added)
           ELSE IF ret.pre.bytes # NULL
           THEN /\ ret.ok /\ ret.chunks # NULL /\ Len(ret.chunks[1]) = 1
                /\ ret.chunks[1][1].bytes = ret.pre.bytes[1]
                /\ ret.chunks[1][1].address = ret.pre.addr
                /\ ret.chunks[1][1].idx = ret.pre.idx
           ELSE ~ret.ok /\ ret.code = "NOT_FOUND" /\ ret.chunks = NULL

\* two different chunks were added to an object with a buffer, an address
\* and an index
C23_Witness ==
    /\ IsGetChunks /\ ret.ok
    /\ Len(hist.added) = 2 /\ hist.added[1] # hist.added[2]
    /\ ret.pre.bytes # NULL /\ ret.pre.addr # 0 /\ ret.pre.idx # 0

IsWriteChunk == ret.op = "write_chunk"

\* the offset of the call of ret into the buffer, and the length of the buffer
ChunkOffset == ret.address - ret.pre.addr

ChunkBufsz == Len(ret.pre.bytes[1])

----------------------------------------------------------------------------
(* Properties of the elements fu_firmware_build reads *)

\* the version_format and alignment elements of the call of ret are valid
ValidFields ==
    /\ ret.n.version_format # NULL => ret.n.version_format[1] \in VersionFormats
    /\ ret.n.alignment # NULL => ret.n.alignment[1] <= FU_FIRMWARE_ALIGNMENT_2G

\* the call of ret read a data element
BuiltData == IsBuild /\ ValidFields /\ ret.n.data # NULL

\* the bytes of the data element of the call of ret, none without text
DataPlain ==
    IF ret.n.data[1].text = NULL THEN <<>> ELSE Base64Plain(ret.n.data[1].text[1])

\* the size attribute of the data element of the call of ret, 0 when absent
DataSize == IF ret.n.data[1].size = NULL THEN 0 ELSE ret.n.data[1].size[1]

\* C25, as stated: a data element with text sets the buffer to the decoded
\* bytes, followed by zero bytes up to the size attribute when that is
\* larger, and to the decoded bytes alone without a size attribute or with
\* the size 0; a data element without text sets an empty buffer.  Violated:
\* the bytes are padded with 0xFF, and a data element without text and with
\* a size attribute gives a buffer of that size.
C25_DataZeroPadded ==
    BuiltData =>
        /\ objs[1].bytes # NULL
        /\ IF ret.n.data[1].text = NULL THEN objs[1].bytes[1] = <<>>
           ELSE IF DataSize > Len(DataPlain)
           THEN objs[1].bytes[1] =
                    DataPlain \o [k \in 1..(DataSize - Len(DataPlain)) |-> 0]
           ELSE DataSize = 0 => objs[1].bytes[1] = DataPlain

\* C25, amended: a data element sets the buffer to the decoded bytes of its
\* text, or to no bytes without text, followed by bytes 0xFF up to the size
\* attribute when that is larger; without a size attribute or with the size
\* 0 the buffer is the decoded bytes alone, which for a data element without
\* text is an empty buffer, and a buffer all the same.
C25_DataPaddedWithFF ==
    BuiltData =>
        /\ objs[1].bytes # NULL
        /\ IF DataSize > Len(DataPlain)
           THEN objs[1].bytes[1] =
                    DataPlain \o [k \in 1..(DataSize - Len(DataPlain)) |-> 255]
           ELSE DataSize = 0 => objs[1].bytes[1] = DataPlain

\* a text of two bytes was padded to a size of three
C25_Witness ==
    /\ BuiltData /\ ret.ok
    /\ ret.n.data[1].text # NULL /\ Len(DataPlain) = 2 /\ DataSize = 3
    /\ Len(objs[1].bytes[1]) = 3

\* the nested firmware elements of the call of ret with a gtype attribute
\* that names no registered type
Unregistered ==
    {i \in DOMAIN ret.n.firmware :
        ret.n.firmware[i].gtype # NULL /\ ret.n.firmware[i].gtype[1] \notin GTypes}

\* the nested firmware elements before the i-th are built without a failure
BuiltBefore(i) ==
    \A j \in 1..(i - 1) :
        /\ j \notin Unregistered
        /\ (ret.n.firmware[j].gtype = Some("FuFullFirmware")) => ret.n.firmware[j].build

\* the call of ret failed with `code' and never called klass->build on the object
FailedBeforeHook(code) ==
    ~ret.ok /\ ret.code = code /\ objs[1].build_calls = 0

\* C26: fu_firmware_build fails with INVALID_DATA for a version_format that
\* is no known name and for an alignment above the largest exponent, and
\* with NOT_FOUND for a nested firmware element whose gtype is not
\* registered, and in each case klass->build of the object was not called.
C26_BuildFailsBeforeHook ==
    IsBuild =>
        /\ ~ValidFields => FailedBeforeHook("INVALID_DATA")
        /\ (ValidFields /\ \E i \in Unregistered : BuiltBefore(i)) =>
               FailedBeforeHook("NOT_FOUND")

\* an object of a class with the hook, built from a manifest whose nested
\* element names a type that is not registered
C26_Witness ==
    /\ IsBuild /\ FU_FIRMWARE_GET_CLASS(ret.pre[1]).build
    /\ ValidFields /\ Unregistered # {}
    /\ ret.n.alignment # NULL /\ ret.n.version_format # NULL
    /\ FailedBeforeHook("NOT_FOUND")

----------------------------------------------------------------------------
(* Properties of the export *)

IsExport == ret.op = "export"

StringFields == {"id", "version", "filename"}

NumberFields == {"idx", "version_raw", "addr", "offset", "alignment", "size", "size_max"}

\* the element of a field in the manifest of the export, and the field
Element(f) == ret.bn[f]

Field(f) == objs[ret.self][f]

\* the rules of the export that do not depend on the reading of a string
\* field: a number has an element iff it is not 0, the version format iff it
\* is known, and the gtype attribute is set iff the type is not FuFirmware
ExportedNumbersAndType ==
    /\ \A f \in NumberFields : Element(f) # NULL <=> Field(f) # 0
    /\ Element("version_format") # NULL <=> Field("version_format") # "unknown"
    /\ Element("gtype") # NULL <=> Field("gtype") # "FuFirmware"

\* C27 as stated: the export has an element for a scalar field iff the field
\* is not its default (a number not 0, a string not empty, a known version
\* format), never an element without text, and the gtype attribute iff the
\* type of the object is not the generic type
C27_ExportsNonDefaultFields ==
    IsExport =>
        /\ ExportedNumbersAndType
        /\ \A f \in StringFields :
              /\ Element(f) # NULL <=> Field(f) \notin {NULL, Some("")}
              /\ Element(f) # Some("")

\* C27: the export has an element for a number iff it is not 0, for the
\* version format iff it is known, and for a string iff the string is set,
\* with the string as its text, so that a string set to "" has an element
\* without text; the gtype attribute is set iff the type is not FuFirmware
C27_ExportsSetStrings ==
    IsExport =>
        /\ ExportedNumbersAndType
        /\ \A f \in StringFields : Element(f) = Field(f)

\* an object of a format's type is exported with a number that is 1, an
\* empty id and a version that is not set
C27_Witness ==
    /\ IsExport
    /\ Field("gtype") # "FuFirmware"
    /\ Field("idx") = 1
    /\ Field("id") = Some("")
    /\ Field("version") = NULL
    /\ Field("filename") = Some("a")
    /\ Field("version_format") = "triplet"

\* an export with the base64 text of the data, of an object that
\* fu_firmware_build has built from the manifest ret.n
IsRoundTrip == ret.op = "export" /\ "n" \in DOMAIN ret /\ ret.built /\ ret.flags = {}

\* the export has the version fields of the manifest and as many firmware
\* elements, with the ids of the manifest's in their order, and a data
\* element without text where the manifest has one
RoundTripKeepsFields ==
    /\ ret.bn.version = ret.n.version
    /\ ret.bn.version_format = ret.n.version_format
    /\ Len(ret.bn.firmware) = Len(ret.n.firmware)
    /\ \A i \in 1..Len(ret.n.firmware) :
          /\ ret.bn.firmware[i].id = ret.n.firmware[i].id
          /\ ret.n.firmware[i].data # NULL => ret.bn.firmware[i].data # NULL
          /\ ret.n.firmware[i].data # NULL /\ ret.n.firmware[i].data[1].text = NULL =>
                 ret.bn.firmware[i].data[1].text = NULL

\* the firmware elements of the manifest that have a data element with text
WithText == {i \in 1..Len(ret.n.firmware) :
                ret.n.firmware[i].data # NULL /\ ret.n.firmware[i].data[1].text # NULL}

\* C28 as stated: the export of the tree built from a manifest has the same
\* number and order of children, the same id and version fields, the
\* identical base64 text for a child with data, and a data element without
\* text for a child with an empty data element
C28_ExportOfBuiltHasSameText ==
    IsRoundTrip =>
        /\ RoundTripKeepsFields
        /\ \A i \in WithText : ret.bn.firmware[i].data[1].text = ret.n.firmware[i].data[1].text

\* C28: the export of the tree built from a manifest has the same number
\* and order of children, the same id and version fields, a data element
\* without text for a child with an empty data element, and for a child with
\* data the base64 encoding of the bytes its text decodes to, which is the
\* text of the manifest when that is the encoding g_base64_encode gives
C28_ExportOfBuiltHasSameBytes ==
    IsRoundTrip =>
        /\ RoundTripKeepsFields
        /\ \A i \in WithText :
              /\ ret.bn.firmware[i].data[1].text =
                     Some(g_base64_encode(Base64Plain(ret.n.firmware[i].data[1].text[1])))
              /\ ret.n.firmware[i].data[1].text[1] # Base64Loose =>
                     ret.bn.firmware[i].data[1].text = ret.n.firmware[i].data[1].text

\* a tree is exported that was built from a manifest whose first child has
\* data of more than three bytes and whose second child has an empty data
\* element
C28_Witness ==
    /\ IsRoundTrip
    /\ Len(ret.n.firmware) = 2
    /\ ret.n.firmware[1].data # NULL /\ ret.n.firmware[2].data # NULL
    /\ ret.n.firmware[1].data[1].text # NULL
    /\ Len(ret.n.firmware[1].data[1].text[1]) > 4
    /\ ret.n.firmware[2].data[1].text = NULL
    /\ ret.n.firmware[1].id # ret.n.firmware[2].id

----------------------------------------------------------------------------
(* Properties of writing and parsing again *)

ScalarFields == {"id", "idx", "version", "version_raw", "version_format", "addr", "offset",
                 "alignment", "size", "size_max", "filename"}

\* the written bytes of the first object have been parsed into the second
Reparsed == hist.first # NULL

\* the second object is written after the parse
IsSecondWrite == Reparsed /\ ret.op = "write" /\ ret.self = 2

\* the parse was told to keep the payload
Caching == hist.flags[1] \cap {"CACHE_BLOB", "CACHE_STREAM"} # {}

\* C29 as stated: a generic object with a buffer is written and the bytes
\* are parsed into a new generic object; that object has the scalar fields
\* and the payload of the first, and its write gives the bytes of the first
\* write
C29_RewriteKeepsFieldsAndPayload ==
    /\ Reparsed =>
          /\ \A f \in ScalarFields : objs[2][f] = objs[1][f]
          /\ fu_firmware_get_bytes(objs[2]) = fu_firmware_get_bytes(objs[1])
    /\ IsSecondWrite => ret.ok /\ ret.bytes = hist.first

\* C29: a generic object with a buffer is written and the bytes are parsed
\* into a new generic object; that object has the scalar fields of a new
\* object, and when the parse had one of the flags CACHE_BLOB and
\* CACHE_STREAM its payload is the bytes that were written, the buffer of
\* the first object with its patches applied, and its write gives the bytes
\* of the first write; without these flags it has no payload and its write
\* fails with NOT_FOUND
C29_RewriteKeepsWrittenBytes ==
    /\ Reparsed =>
          /\ \A f \in ScalarFields : objs[2][f] = g_object_new("FuFirmware")[f]
          /\ hist.first =
                 Some(fu_firmware_apply_patches(objs[1].bytes[1],
                                                g_ptr_array_or_empty(objs[1].patches), 1).buf)
          /\ Caching => fu_firmware_get_bytes(objs[2]) = G_OK @@ [bytes |-> hist.first]
          /\ ~Caching => objs[2].bytes = NULL /\ objs[2].stream = NULL
    /\ IsSecondWrite =>
          IF Caching THEN ret.ok /\ ret.bytes = hist.first
          ELSE ~ret.ok /\ ret.code = "NOT_FOUND"

\* the second object is written after a caching parse of the bytes of a
\* first object that has an id and a patch that changes its buffer
C29_Witness ==
    /\ IsSecondWrite
    /\ Caching
    /\ objs[1].id # NULL
    /\ objs[1].patches # NULL
    /\ hist.first # objs[1].bytes

\* the call of ret read an object without a buffer
WithoutBuffer == IsGetBytesWithPatches /\ ret.pre.bytes = NULL

----------------------------------------------------------------------------
(* Properties of the depth of an object outside a tree *)

\* the objects that are in the images of no object
Roots == {c \in DOMAIN objs : \A p \in DOMAIN objs : c \notin Range(objs[p].images)}

\* C31: an object that is in the images of no object, because it was never
\* added or was removed again, has the depth 0.  Violated:
\* fu_firmware_remove_image takes the object out of priv->images and leaves
\* its depth (and its parent) as the addition set them.
C31_RootsHaveDepthZero ==
    \A c \in Roots : fu_firmware_get_depth(objs[c]) = 0

----------------------------------------------------------------------------
(* Properties of the list of patches *)

\* C32: as the documentation of fu_firmware_add_patch has it, a patch added
\* at the offset of an existing patch replaces it: no two patches of an
\* object have the same offset, whatever their lengths.  Violated: the patch
\* is replaced only when the new blob has its length too.
C32_OnePatchPerOffset ==
    \A i, j \in DOMAIN Patches(objs[1]) :
        Patches(objs[1])[i].offset = Patches(objs[1])[j].offset => i = j

----------------------------------------------------------------------------
(* Properties of the size checks of a parse *)

\* the call of ret got past the validation
PastValidate == ReachedValidate /\ ret.exit # "validate"

\* C33: a parse of a stream that is not longer than the offset fails with
\* NOT_SUPPORTED, with no hook run, no flag set and the object as it was; so
\* when the check of the remaining size is reached the resolved offset is
\* below the size of the stream, the remaining size is 1 or more, and no
\* parse fails as zero sized
C33_NeverZeroSized ==
    IsParse =>
        /\ ("DONE_PARSE" \notin ret.pre.flags /\ Len(ret.stream) <= ret.arg_offset) =>
               /\ ~ret.ok /\ ret.code = "NOT_SUPPORTED" /\ ret.exit = "size"
               /\ ret.validate_calls = <<>> /\ ret.hooks = <<>>
               /\ objs[ret.self] = ret.pre
        /\ PastValidate =>
               /\ ret.offset < Len(ret.stream)
               /\ objs[ret.self].streamsz = Len(ret.stream) - ret.offset
               /\ objs[ret.self].streamsz >= 1
        /\ ret.exit # "zero"

\* a parse at the very end of a stream that is not empty, by a format with
\* a validator
C33_Witness ==
    /\ IsParse /\ "DONE_PARSE" \notin ret.pre.flags
    /\ Len(ret.stream) = ret.arg_offset /\ ret.arg_offset > 0
    /\ HasValidator
    /\ ret.exit = "size"

----------------------------------------------------------------------------
(* Properties of the depth of the objects that are built *)

RECURSIVE ManifestDepth(_)
\* the levels of firmware elements nested in a firmware element
ManifestDepth(n) ==
    IF n.firmware = <<>> THEN 0
    ELSE 1 + ManifestDepth(n.firmware[CHOOSE i \in DOMAIN n.firmware :
                                         \A j \in DOMAIN n.firmware :
                                            ManifestDepth(n.firmware[j]) <=
                                            ManifestDepth(n.firmware[i])])

\* C34: fu_firmware_build adds the object of a nested firmware element to
\* its parent before it builds it, so every image in the tree that is built
\* has the depth of its parent plus 1; a manifest whose nesting goes deeper
\* than the limit of the depth makes the build fail with an error at the
\* first addition beyond the limit, and no object deeper than the limit is
\* built.  Violated: the addition to an object at the limit succeeds (see
\* C10), so one level deeper than the limit is built.
C34_BuildKeepsDepthLimit ==
    IsBuild =>
        /\ \A p \in Alive(objs) : \A c \in Range(objs[p].images) :
               objs[c].depth = objs[p].depth + 1
        /\ \A i \in Alive(objs) :
               objs[i].depth <= FU_FIRMWARE_IMAGE_DEPTH_MAX \/ i \in DOMAIN ret.pre
        /\ ret.pre[ret.self].depth + ManifestDepth(ret.n) > FU_FIRMWARE_IMAGE_DEPTH_MAX =>
               ~ret.ok /\ ret.code = "INVALID_DATA"
        /\ ret.pre[ret.self].depth + ManifestDepth(ret.n) <= FU_FIRMWARE_IMAGE_DEPTH_MAX =>
               ret.ok

\* C35: a parse that fails at the size check, in the validation or at the
\* size_max check leaves DONE_PARSE clear and the flags, the buffer, the stream
\* and the children of the node as they were, and every later parse of the node
\* returns what it would have returned without the failed call
C35_FailedParseLeavesNode ==
    (IsParse /\ ret.exit \in {"size", "validate", "size_max"}) =>
        /\ ~ret.ok
        /\ ~fu_firmware_has_flag(objs[1], "DONE_PARSE")
        /\ objs[1].flags = ret.pre.flags
        /\ objs[1].bytes = ret.pre.bytes
        /\ objs[1].stream = ret.pre.stream
        /\ objs[1].images = ret.pre.images
        /\ \A stream \in ShortStreams, offset \in 0..1,
              flags \in SUBSET {"NO_SEARCH", "CACHE_STREAM"}, hk \in HookOutcomes(objs[1]) :
                GError(fu_firmware_parse_stream(objs[1], stream, offset, flags, hk)) =
                GError(fu_firmware_parse_stream(ret.pre, stream, offset, flags, hk))

\* a node with a child, a buffer and a stream is parsed after a failed parse
C35_Witness ==
    /\ IsParse /\ ret.ok
    /\ ret.hist.parse_calls = 1 /\ ~ret.hist.parsed_ok
    /\ ret.pre.images # <<>> /\ ret.pre.bytes # NULL /\ ret.pre.stream # NULL

\* C36: a failing fu_firmware_add_image_full changes nothing: the children of
\* the parent and the parent back-reference and the depth of the candidate
\* image are after the call what they were before it, whatever the dedupe
\* flags of the parent and whenever images_max was set
C36_FailedAddChangesNothing ==
    (ret.op = "add_image_full" /\ ~ret.ok) =>
        /\ objs[ret.self].images = ret.pre[ret.self].images
        /\ objs[ret.img].parent = ret.pre[ret.img].parent
        /\ objs[ret.img].depth = ret.pre[ret.img].depth

----------------------------------------------------------------------------
(* Properties of fu_firmware_add_patch *)

\* the places of the patches before the call of ret that have the offset and
\* the length of the patch of the call
SamePlace ==
    {i \in DOMAIN Patches(ret.pre) :
        /\ Patches(ret.pre)[i].offset = ret.offset
        /\ Len(Patches(ret.pre)[i].blob) = Len(ret.blob)}

----------------------------------------------------------------------------
(* Properties of the numbers of an export *)

\* C38: the object built from the elements that fu_firmware_export writes
\* for idx, version_raw, addr and offset has the values of these fields of
\* the exported object, for every 64-bit value, 2^32 and above included.
\* Violated: the element is written from the value cast to guint.
C38_ExportedNumbersReadBack ==
    ret.op = "build_numbers" =>
        /\ ret.ok
        /\ \A f \in NumberFields64 : guint64(objs[1][f]) = hist[f]

----------------------------------------------------------------------------
(* Properties of the CCGx HPI device *)

\* the number of rows of the flash of the device
CcgxRows == objs[1].flash_size \div objs[1].flash_row_size

\* C40: fu_ccgx_hpi_device_get_metadata_offset fails with NOT_SUPPORTED when
\* the row size is 0 or neither 128 nor 256, or the mode is neither FW1 nor
\* FW2; else, on a device that passed the sanity check of the setup, it
\* returns the last row for FW1 and the one before it for FW2, a row from 0
\* to flash_size / flash_row_size - 1, with no wrap-around.  Violated: a
\* flash of one row has no row before the last.
C40_MetadataRowInFlash ==
    ret.op = "get_metadata_offset" =>
        IF \/ objs[1].flash_row_size \notin {128, 256}
           \/ ret.fw_mode \notin {"FU_CCGX_FW_MODE_FW1", "FU_CCGX_FW_MODE_FW2"}
        THEN ~ret.ok /\ ret.code = "NOT_SUPPORTED"
        ELSE hist.sane =>
                 /\ ret.ok
                 /\ ret.addr[1].hi = 0
                 /\ ret.addr[1].lo <= CcgxRows - 1
                 /\ ret.addr[1].lo =
                        CcgxRows - (IF ret.fw_mode = "FU_CCGX_FW_MODE_FW1" THEN 1 ELSE 2)

IsWriteFirmware == ret.op = "write_firmware"

\* the places of the log of the call of ret with the command cmd
Sent(cmd) == {i \in DOMAIN ret.log : ret.log[i].cmd = cmd}

\* the places of the log where a record of the firmware was written
RecordWrites == {i \in Sent("write_flash") : "rcd" \in DOMAIN ret.log[i].data[1]}

\* flash mode is entered first, and nothing is sent when that failed; a row
\* is read or written only after that; the metadata of the other image is
\* written with metadata_valid 0 before the first record; the firmware is
\* validated only after all its records were written with success and in
\* their order
WriteFirmwareOrdered ==
    /\ ret.log # <<>> /\ Sent("enter_flash_mode") = {1}
    /\ ~ret.log[1].ok => (Len(ret.log) = 1 /\ ~ret.ok)
    /\ \A i \in RecordWrites :
           \E j \in Sent("write_flash") :
               /\ j < i /\ ret.log[j].ok
               /\ ret.log[j].data = Some([metadata_valid |-> 0])
               /\ \A k \in RecordWrites : j < k
    /\ \A v \in Sent("validate_fw") :
           /\ Cardinality(RecordWrites) = Len(ret.records)
           /\ \A i \in RecordWrites : i < v /\ ret.log[i].ok
           /\ \A i \in RecordWrites :
                  /\ ret.log[i].addr = Some(ret.records[ret.log[i].data[1].rcd])
                  /\ \A j \in RecordWrites :
                         i < j => ret.log[i].data[1].rcd < ret.log[j].data[1].rcd
    /\ Cardinality(Sent("validate_fw")) <= 1
    /\ ret.ok => (Sent("validate_fw") # {} /\ \A i \in DOMAIN ret.log : ret.log[i].ok)

====
